---- MODULE Spec2Model ----
(***************************************************************************)
(* State-machine model of the ESG scoring and task-synchronisation engine  *)
(* of ecotrack-product-server: services/esgScoring.ts,                     *)
(* services/complianceService.ts, services/taskService.ts and the task     *)
(* routes.                                                                 *)
(*                                                                         *)
(* Conventions                                                             *)
(*  - A JavaScript value is a record [k, v]: k = "abs" (undefined/null),   *)
(*    "num" (a number, v its value), "str" (a non-numeric, non-empty       *)
(*    string), "bool" (v = 1 for true), "nan" (the number NaN).            *)
(*  - Dates are whole days.                                                *)
(*  - renewableEnergyPercent is held in tenths of a percent, unrounded     *)
(*    pillar scores in hundredths of a point, the weighted sum in          *)
(*    thousandths, and returned (rounded) scores in tenths.                *)
(*  - A Mongo collection of metric snapshots is held as the latest         *)
(*    document per (companyId, period): every reader in the code is        *)
(*    findOne({companyId, period}).sort({createdAt: -1}).                  *)
(***************************************************************************)
EXTENDS Integers, Sequences, FiniteSets, TLC

VARIABLES now, envDB, socDB, govDB, companyDB, evidenceDB, tasks, calls,
          lastSync, scoreResult, warnings, companyDoc,
          readinessResult, completenessResult, edits,
          scoreDB, requests, subscriptionDB, trialResults

vars == <<now, envDB, socDB, govDB, companyDB, evidenceDB, tasks, calls,
          lastSync, scoreResult, warnings, companyDoc,
          readinessResult, completenessResult, edits,
          scoreDB, requests, subscriptionDB, trialResults>>

(***************************************************************************)
(* Bounds                                                                  *)
(***************************************************************************)
MaxTime == 2
MaxTasks == 6

Companies == {"c1", "c2"}
Periods == {"P1"}
Keys == Companies \X Periods
\* The two overlapping syncTasks calls.
CallIds == {"A", "B"}

(***************************************************************************)
(* JavaScript values                                                       *)
(***************************************************************************)
Abs == [k |-> "abs", v |-> 0]
NaN == [k |-> "nan", v |-> 0]
Str == [k |-> "str", v |-> 0]
N(n) == [k |-> "num", v |-> n]
B(b) == [k |-> "bool", v |-> IF b THEN 1 ELSE 0]

\* JavaScript truthiness (the operand of !!x, x || y, x && y, !x).
Truthy(x) ==
  \/ x.k = "num" /\ x.v # 0
  \/ x.k = "str"
  \/ x.k = "bool" /\ x.v = 1

\* Variant: the left operand is ignored.
Or_RightOnly(x, y) == y

\* x || y
Or(x, y) == IF Truthy(x) THEN x ELSE y

\* Number(x)
Number(x) ==
  CASE x.k = "num" -> x
    [] x.k = "bool" -> N(x.v)
    [] x.k = "str" -> NaN
    [] x.k = "nan" -> NaN
    [] OTHER -> NaN

isNaN(x) == Number(x).k = "nan"

\* x !== undefined
Defined(x) == x.k # "abs"

\* x !== undefined && x !== null
NotNullish(x) == x.k # "abs"

(***************************************************************************)
(* Strings that the code searches: sequences of one-character strings.     *)
(***************************************************************************)
LowerOf(ch) ==
  CASE ch = "P" -> "p" [] ch = "O" -> "o" [] ch = "S" -> "s" [] ch = "H" -> "h"
    [] ch = "W" -> "w" [] ch = "A" -> "a" [] ch = "T" -> "t" [] ch = "E" -> "e"
    [] ch = "D" -> "d" [] ch = "I" -> "i" [] ch = "L" -> "l" [] ch = "G" -> "g"
    [] OTHER -> ch

toLowerCase(s) == [i \in 1..Len(s) |-> LowerOf(s[i])]

includes(s, sub) ==
  \E i \in 0..(Len(s) - Len(sub)) :
    \A j \in 1..Len(sub) : s[i + j] = sub[j]

KwWaste == <<"w", "a", "s", "t", "e">>
KwDisposal == <<"d", "i", "s", "p", "o", "s", "a", "l">>
KwPosh == <<"p", "o", "s", "h">>

(***************************************************************************)
(* Documents                                                               *)
(***************************************************************************)
\* No document found: findOne(...) returned null; `doc?.field` is undefined.
NoEnv ==
  [present |-> FALSE, electricityKwh |-> Abs, electricityUsageKwh |-> Abs,
   totalEnergyConsumption |-> Abs, waterUsageKL |-> Abs,
   totalWasteTonnes |-> Abs, wasteGeneratedKg |-> Abs,
   scope1Emissions |-> Abs, scope2Emissions |-> Abs,
   carbonEmissionsTons |-> Abs, renewableEnergyPercent |-> Abs,
   environmentalPolicyExists |-> Abs, fuelLitres |-> Abs,
   fuelConsumptionLitres |-> Abs]

\* A saved EnvironmentalMetrics document with only the schema defaults.
NewEnv == [NoEnv EXCEPT !.present = TRUE, !.environmentalPolicyExists = B(FALSE)]

NoSoc ==
  [present |-> FALSE, totalEmployeesPermanent |-> Abs,
   totalEmployeesContractual |-> Abs, totalEmployees |-> Abs,
   femalePercentWorkforce |-> Abs, femaleEmployees |-> Abs,
   totalTrainingHoursPerEmployee |-> Abs, avgTrainingHours |-> Abs,
   accidentIncidents |-> Abs, workplaceIncidents |-> Abs,
   csrSpend |-> Abs, healthSafetyPolicies |-> Abs,
   employeeTurnoverPercent |-> Abs]

NewSoc == [NoSoc EXCEPT !.present = TRUE]

NoGov ==
  [present |-> FALSE, boardMembers |-> Abs, independentDirectors |-> Abs,
   complianceViolations |-> Abs, antiCorruptionPolicy |-> Abs,
   dataPrivacyPolicy |-> Abs, whistleblowerPolicyExists |-> Abs,
   codeOfConductExists |-> Abs, esgCommitteeExists |-> Abs,
   boardDiversityPercent |-> Abs]

\* A saved GovernanceMetrics document with only the schema defaults.
NewGov ==
  [NoGov EXCEPT !.present = TRUE, !.complianceViolations = N(0),
                !.antiCorruptionPolicy = B(FALSE), !.dataPrivacyPolicy = B(FALSE),
                !.whistleblowerPolicyExists = B(FALSE),
                !.codeOfConductExists = B(FALSE), !.esgCommitteeExists = B(FALSE)]

NoCompany == [present |-> FALSE, employeeCount |-> Abs]

Statuses == {"Pending", "In Progress", "Completed", "Overdue"}
OpenStatuses == {"Pending", "In Progress"}
AutoSources == {"compliance", "missing-data", "expiring-document"}

(***************************************************************************)
(* complianceService.ts                                                    *)
(***************************************************************************)
Req(id, area, text, mandatory, category) ==
  [id |-> id, area |-> area, requirement |-> text, mandatory |-> mandatory,
   category |-> category]

BRSR_REQUIREMENTS ==
  << Req("E1", "Environmental", "Energy consumption data", TRUE, "mandatory"),
     Req("E2", "Environmental", "Water consumption data", TRUE, "mandatory"),
     Req("E3", "Environmental", "Waste management data", TRUE, "mandatory"),
     Req("E4", "Environmental", "Air emissions data", TRUE, "mandatory"),
     Req("E5", "Environmental", "Renewable energy usage", FALSE, "client-driven"),
     Req("E6", "Environmental", "Environmental policy document", FALSE, "client-driven"),
     Req("E7", "Environmental", "Waste disposal proof", FALSE, "client-driven"),
     Req("E8", "Environmental", "Carbon footprint calculation", FALSE, "future-ready"),
     Req("S1", "Social", "Total employee count", TRUE, "mandatory"),
     Req("S2", "Social", "Gender diversity data", TRUE, "mandatory"),
     Req("S3", "Social", "Training hours data", TRUE, "mandatory"),
     Req("S4", "Social", "Safety incident data", TRUE, "mandatory"),
     Req("S5", "Social", "CSR spend data", FALSE, "client-driven"),
     Req("S6", "Social", "Employee welfare policies", FALSE, "client-driven"),
     Req("G1", "Governance", "Board composition data", TRUE, "mandatory"),
     Req("G2", "Governance", "Independent directors data", TRUE, "mandatory"),
     Req("G3", "Governance", "Compliance violations data", TRUE, "mandatory"),
     Req("G4", "Governance", "Anti-corruption policy", FALSE, "client-driven"),
     Req("G5", "Governance", "POSH policy", FALSE, "client-driven"),
     Req("G6", "Governance", "Code of conduct", FALSE, "client-driven"),
     Req("G7", "Governance", "ESG committee structure", FALSE, "future-ready") >>

\* evidence.some(e => e.evidenceType?.toLowerCase().includes(kw))
SomeEvidence(evidence, kw) ==
  \E i \in 1..Len(evidence) : includes(toLowerCase(evidence[i].evidenceType), kw)

isRequirementCovered(id, env, soc, gov, evidence) ==
  CASE id = "E1" -> Truthy(Or(Or(env.electricityKwh, env.electricityUsageKwh),
                              env.totalEnergyConsumption))
    [] id = "E2" -> Truthy(env.waterUsageKL)
    [] id = "E3" -> Truthy(Or(env.totalWasteTonnes, env.wasteGeneratedKg))
    [] id = "E4" -> Truthy(Or(env.scope1Emissions, env.carbonEmissionsTons))
    [] id = "E5" -> /\ Truthy(env.renewableEnergyPercent)
                    /\ Number(env.renewableEnergyPercent).k = "num"
                    /\ Number(env.renewableEnergyPercent).v > 0
    [] id = "E6" -> Truthy(env.environmentalPolicyExists)
    [] id = "E7" -> SomeEvidence(evidence, KwWaste) \/ SomeEvidence(evidence, KwDisposal)
    [] id = "E8" -> Truthy(env.scope1Emissions) /\ Truthy(env.scope2Emissions)
    [] id = "S1" -> Truthy(Or(Or(soc.totalEmployeesPermanent, soc.totalEmployees),
                              soc.totalEmployeesContractual))
    [] id = "S2" -> Truthy(Or(soc.femalePercentWorkforce, soc.femaleEmployees))
    [] id = "S3" -> Truthy(Or(soc.totalTrainingHoursPerEmployee, soc.avgTrainingHours))
    [] id = "S4" -> Defined(soc.accidentIncidents)
    [] id = "S5" -> Truthy(soc.csrSpend)
    [] id = "S6" -> Truthy(soc.healthSafetyPolicies)
    [] id = "G1" -> Truthy(gov.boardMembers)
    [] id = "G2" -> Truthy(gov.independentDirectors)
    [] id = "G3" -> Defined(gov.complianceViolations)
    [] id = "G4" -> Truthy(gov.antiCorruptionPolicy)
    [] id = "G5" -> Truthy(gov.whistleblowerPolicyExists) \/ SomeEvidence(evidence, KwPosh)
    [] id = "G6" -> Truthy(gov.codeOfConductExists)
    [] id = "G7" -> Truthy(gov.esgCommitteeExists)
    [] OTHER -> FALSE

categoryPriority(cat) ==
  CASE cat = "mandatory" -> 0 [] cat = "client-driven" -> 1 [] OTHER -> 2

\* The comparator handed to Array.prototype.sort.
compareReqs(a, b) ==
  IF a.mandatory /\ ~b.mandatory THEN 0 - 1
  ELSE IF ~a.mandatory /\ b.mandatory THEN 1
  ELSE categoryPriority(a.category) - categoryPriority(b.category)

\* Variant: x goes before the first element that the comparator does not
\* order before it, which reverses requirements of equal rank.
InsertStable_BeforeEqual(s, x) ==
  LET later == {i \in 1..Len(s) : compareReqs(x, s[i]) <= 0}
  IN IF later = {} THEN Append(s, x)
     ELSE LET i == CHOOSE m \in later : \A n \in later : m <= n
          IN SubSeq(s, 1, i - 1) \o <<x>> \o SubSeq(s, i, Len(s))

\* Array.prototype.sort is stable: x goes before the first element that
\* the comparator orders strictly after it.
InsertStable(s, x) ==
  LET later == {i \in 1..Len(s) : compareReqs(x, s[i]) < 0}
  IN IF later = {} THEN Append(s, x)
     ELSE LET i == CHOOSE m \in later : \A n \in later : m <= n
          IN SubSeq(s, 1, i - 1) \o <<x>> \o SubSeq(s, i, Len(s))

RECURSIVE StableSort(_)
StableSort(s) ==
  IF s = <<>> THEN <<>>
  ELSE InsertStable(StableSort(SubSeq(s, 1, Len(s) - 1)), s[Len(s)])

getActionForRequirement(req) ==
  CASE req.id = "E1" -> <<"Add electricity consumption data">>
    [] req.id = "E2" -> <<"Add water consumption data">>
    [] req.id = "E3" -> <<"Add waste management data">>
    [] req.id = "E4" -> <<"Add air emissions data">>
    [] req.id = "E5" -> <<"Add renewable energy usage percentage">>
    [] req.id = "E6" -> <<"Upload environmental policy document">>
    [] req.id = "E7" -> <<"Upload waste disposal proof">>
    [] req.id = "E8" -> <<"Calculate and add carbon footprint">>
    [] req.id = "S1" -> <<"Add total employee count">>
    [] req.id = "S2" -> <<"Add gender diversity data">>
    [] req.id = "S3" -> <<"Add training hours data">>
    [] req.id = "S4" -> <<"Add safety incident data">>
    [] req.id = "S5" -> <<"Add CSR spend data">>
    [] req.id = "S6" -> <<"Add employee welfare policies">>
    [] req.id = "G1" -> <<"Add board composition details">>
    [] req.id = "G2" -> <<"Add independent directors count">>
    [] req.id = "G3" -> <<"Add compliance violations data">>
    [] req.id = "G4" -> <<"Upload anti-corruption policy">>
    [] req.id = "G5" -> <<"Upload POSH policy">>
    [] req.id = "G6" -> <<"Upload code of conduct">>
    [] req.id = "G7" -> <<"Add ESG committee structure">>
    [] OTHER -> <<"Complete ", req.requirement>>

\* Evidence.find({ companyId })
EvidenceOf(ev, c) == SelectSeq(ev, LAMBDA e : e.companyId = c)

\* requirementChecks: the catalog with a covered flag per requirement.
requirementChecks(env, soc, gov, evidence) ==
  [i \in 1..Len(BRSR_REQUIREMENTS) |->
     [id |-> BRSR_REQUIREMENTS[i].id,
      area |-> BRSR_REQUIREMENTS[i].area,
      requirement |-> BRSR_REQUIREMENTS[i].requirement,
      mandatory |-> BRSR_REQUIREMENTS[i].mandatory,
      category |-> BRSR_REQUIREMENTS[i].category,
      covered |-> isRequirementCovered(BRSR_REQUIREMENTS[i].id, env, soc, gov, evidence)]]

\* missingReqs.sort(...).slice(0, 5).map(...)
nextStepsOf(checks) ==
  LET missingReqs == SelectSeq(checks, LAMBDA r : ~r.covered)
      sorted == StableSort(missingReqs)
      top == SubSeq(sorted, 1, IF Len(sorted) < 5 THEN Len(sorted) ELSE 5)
  IN [i \in 1..Len(top) |->
        [priority |-> IF top[i].mandatory THEN "high"
                      ELSE IF top[i].category = "client-driven" THEN "medium"
                      ELSE "low",
         action |-> getActionForRequirement(top[i]),
         area |-> top[i].area,
         requirement |-> top[i].requirement]]

Areas == <<"Environmental", "Social", "Governance">>

\* Variant: a pillar is in warning from 60% on.
statusOf_Sixty(covered, total) ==
  IF covered = total THEN "complete"
  ELSE IF 10 * covered >= 6 * total THEN "warning"
  ELSE "critical"

\* The status of a pillar (lines 149-152).  covered >= total * 0.7 is
\* compared in integers: total * 0.7 is 5.6, 4.2 or 4.9 for the catalog's
\* pillars, never a whole number.
statusOf(covered, total) ==
  IF covered = total THEN "complete"
  ELSE IF 10 * covered >= 7 * total THEN "warning"
  ELSE "critical"

\* Variant: every pillar counts the covered requirements of the whole catalog.
coveredIn_AllAreas(checks, area) ==
  Len(SelectSeq(checks, LAMBDA r : r.covered))

\* areaReqs.filter(r => r.covered).length
coveredIn(checks, area) ==
  Len(SelectSeq(SelectSeq(checks, LAMBDA r : r.area = area), LAMBDA r : r.covered))

\* The breakdown: one entry per pillar (lines 143-168).
breakdownOf(checks) ==
  [a \in 1..Len(Areas) |->
     LET areaReqs == SelectSeq(checks, LAMBDA r : r.area = Areas[a])
         covered == coveredIn(checks, Areas[a])
         total == Len(areaReqs)
     IN [area |-> Areas[a],
         covered |-> covered,
         total |-> total,
         missing |-> total - covered,
         status |-> statusOf(covered, total),
         requirements |-> [i \in 1..Len(areaReqs) |->
                             [id |-> areaReqs[i].id,
                              requirement |-> areaReqs[i].requirement,
                              covered |-> areaReqs[i].covered,
                              mandatory |-> areaReqs[i].mandatory,
                              category |-> areaReqs[i].category]]]]

\* Variant: the percentage is cut off, not rounded.
overallReadinessOf_Floor(checks) ==
  (100 * Len(SelectSeq(checks, LAMBDA r : r.covered))) \div Len(checks)

\* Math.round((coveredRequirements / totalRequirements) * 100)
overallReadinessOf(checks) ==
  LET totalRequirements == Len(checks)
      coveredRequirements == Len(SelectSeq(checks, LAMBDA r : r.covered))
  IN (200 * coveredRequirements + totalRequirements) \div (2 * totalRequirements)

\* calculateBRSRReadiness(companyId, period), reading the stores edb/sdb/gdb/ev.
calculateBRSRReadiness(edb, sdb, gdb, ev, c, p) ==
  LET checks == requirementChecks(edb[<<c, p>>], sdb[<<c, p>>], gdb[<<c, p>>],
                                  EvidenceOf(ev, c))
  IN [overallReadiness |-> overallReadinessOf(checks),
      breakdown |-> breakdownOf(checks),
      nextSteps |-> nextStepsOf(checks)]

\* compliance.nextSteps, the one field of the result that generateTasks reads.
complianceNextSteps(edb, sdb, gdb, ev, c, p) ==
  nextStepsOf(requirementChecks(edb[<<c, p>>], sdb[<<c, p>>], gdb[<<c, p>>],
                                EvidenceOf(ev, c)))

(***************************************************************************)
(* taskService.ts                                                          *)
(***************************************************************************)
Blocks == {"compliance", "expiring-document", "missing-data"}

Candidate(title, relatedTo, esgArea, priority, dueDate, source, sourceId) ==
  [title |-> title, relatedTo |-> relatedTo, esgArea |-> esgArea,
   priority |-> priority, status |-> "Pending", dueDate |-> dueDate,
   source |-> source, sourceId |-> sourceId]

\* First try block: one task per readiness next step.
complianceTasks(edb, sdb, gdb, ev, c, p, t) ==
  LET steps == complianceNextSteps(edb, sdb, gdb, ev, c, p)
  IN [i \in 1..Len(steps) |->
        Candidate(steps[i].action, "Compliance", steps[i].area,
                  IF steps[i].priority = "high" THEN "High"
                  ELSE IF steps[i].priority = "medium" THEN "Medium" ELSE "Low",
                  t + (IF steps[i].priority = "high" THEN 1
                       ELSE IF steps[i].priority = "medium" THEN 3 ELSE 7),
                  "compliance",
                  <<"compliance", steps[i].area, i - 1>>)]

\* Variant: documents that have expired already are taken too.
expiringTasks_NoLowerBound(ev, c, t) ==
  LET expiring == SelectSeq(ev, LAMBDA e : /\ e.companyId = c
                                           /\ e.expiryDate.k = "num"
                                           /\ e.expiryDate.v <= t + 30)
  IN [i \in 1..Len(expiring) |->
        Candidate(<<"Renew expiring document: ", expiring[i].evidenceType>>,
                  "Evidence", expiring[i].esgArea, "High",
                  expiring[i].expiryDate.v,
                  "expiring-document", <<"oid", expiring[i].id>>)]

\* Second try block: Evidence.find({companyId, expiryDate: {$gte: now, $lte: now + 30d}}).
expiringTasks(ev, c, t) ==
  LET expiring == SelectSeq(ev, LAMBDA e : /\ e.companyId = c
                                           /\ e.expiryDate.k = "num"
                                           /\ e.expiryDate.v >= t
                                           /\ e.expiryDate.v <= t + 30)
  IN [i \in 1..Len(expiring) |->
        Candidate(<<"Renew expiring document: ", expiring[i].evidenceType>>,
                  "Evidence", expiring[i].esgArea, "High",
                  expiring[i].expiryDate.v,
                  "expiring-document", <<"oid", expiring[i].id>>)]

\* Third try block: the four missing-critical-data checks.
missingDataTasks(edb, sdb, gdb, c, p, t) ==
  LET env == edb[<<c, p>>]
      soc == sdb[<<c, p>>]
      gov == gdb[<<c, p>>]
  IN (IF ~Truthy(env.electricityKwh) /\ ~Truthy(env.electricityUsageKwh)
      THEN << Candidate(<<"Add electricity consumption data">>, "Data",
                        "Environmental", "High", t + 3, "missing-data",
                        <<"env-electricity">>) >>
      ELSE <<>>)
     \o
     (IF ~Truthy(env.waterUsageKL)
      THEN << Candidate(<<"Add water consumption data">>, "Data",
                        "Environmental", "High", t + 3, "missing-data",
                        <<"env-water">>) >>
      ELSE <<>>)
     \o
     (IF ~Truthy(soc.totalEmployeesPermanent) /\ ~Truthy(soc.totalEmployees)
      THEN << Candidate(<<"Add employee count data">>, "Data",
                        "Social", "High", t + 7, "missing-data",
                        <<"social-employees">>) >>
      ELSE <<>>)
     \o
     (IF ~Truthy(gov.boardMembers)
      THEN << Candidate(<<"Add board composition details">>, "Data",
                        "Governance", "High", t + 5, "missing-data",
                        <<"gov-board">>) >>
      ELSE <<>>)

\* Variant: one try/catch around all three blocks, rethrowing.
generateTasks_Abort(edb, sdb, gdb, ev, c, p, t, fail) ==
  IF fail # {}
  THEN [threw |-> TRUE, tasks |-> <<>>]
  ELSE [threw |-> FALSE,
        tasks |-> complianceTasks(edb, sdb, gdb, ev, c, p, t)
                  \o expiringTasks(ev, c, t)
                  \o missingDataTasks(edb, sdb, gdb, c, p, t)]

\* generateTasks: the three blocks, each inside its own try/catch.  `fail` is
\* the set of blocks whose lookup throws; a block that throws has pushed
\* nothing yet.  threw is whether the exception leaves generateTasks.
generateTasks(edb, sdb, gdb, ev, c, p, t, fail) ==
  [threw |-> FALSE,
   tasks |-> (IF "compliance" \in fail THEN <<>>
              ELSE complianceTasks(edb, sdb, gdb, ev, c, p, t))
             \o
             (IF "expiring-document" \in fail THEN <<>>
              ELSE expiringTasks(ev, c, t))
             \o
             (IF "missing-data" \in fail THEN <<>>
              ELSE missingDataTasks(edb, sdb, gdb, c, p, t))]

\* Variant: the lookup sees Pending tasks only.
existingSourceIds_PendingOnly(ts, c) ==
  {ts[i].sourceId : i \in {j \in 1..Len(ts) : /\ ts[j].companyId = c
                                              /\ ts[j].status = "Pending"
                                              /\ ts[j].source \in AutoSources}}

\* Task.find({companyId, status in open, source in automatic}) as the key
\* set of existingTasksMap.
existingSourceIds(ts, c) ==
  {ts[i].sourceId : i \in {j \in 1..Len(ts) : /\ ts[j].companyId = c
                                              /\ ts[j].status \in OpenStatuses
                                              /\ ts[j].source \in AutoSources}}

\* Variant: every candidate is created.
shouldCreate_Always(existing, taskData) == TRUE

\* if (!existingTasksMap.has(taskData.sourceId))
shouldCreate(existing, taskData) == taskData.sourceId \notin existing

\* Task.create({...taskData, companyId, userId})
createTask(taskData, c) ==
  [companyId |-> c, title |-> taskData.title, relatedTo |-> taskData.relatedTo,
   esgArea |-> taskData.esgArea, priority |-> taskData.priority,
   status |-> taskData.status, dueDate |-> taskData.dueDate,
   source |-> taskData.source, sourceId |-> taskData.sourceId,
   completedAt |-> Abs]

\* The for-loop over newTasks.
RECURSIVE insertNew(_, _, _, _)
insertNew(ts, newTasks, existing, c) ==
  IF newTasks = <<>> THEN ts
  ELSE insertNew(IF shouldCreate(existing, Head(newTasks))
                 THEN Append(ts, createTask(Head(newTasks), c)) ELSE ts,
                 Tail(newTasks), existing, c)

\* Variant: the sweep is not limited to the company.
markOverdue_AnyCompany(ts, c, t) ==
  [i \in 1..Len(ts) |->
     IF /\ ts[i].status \in OpenStatuses
        /\ ts[i].dueDate < t
     THEN [ts[i] EXCEPT !.status = "Overdue"]
     ELSE ts[i]]

\* Variant: the sweep looks at Pending tasks only.
markOverdue_PendingOnly(ts, c, t) ==
  [i \in 1..Len(ts) |->
     IF /\ ts[i].companyId = c
        /\ ts[i].status = "Pending"
        /\ ts[i].dueDate < t
     THEN [ts[i] EXCEPT !.status = "Overdue"]
     ELSE ts[i]]

\* Task.updateMany({companyId, status in open, dueDate < now}, {status: 'Overdue'})
markOverdue(ts, c, t) ==
  [i \in 1..Len(ts) |->
     IF /\ ts[i].companyId = c
        /\ ts[i].status \in OpenStatuses
        /\ ts[i].dueDate < t
     THEN [ts[i] EXCEPT !.status = "Overdue"]
     ELSE ts[i]]

\* Variant: open automatic tasks that no candidate matches are removed first.
syncResult_DropResolved(ts, edb, sdb, gdb, ev, c, p, t, fail) ==
  LET gen == generateTasks(edb, sdb, gdb, ev, c, p, t, fail)
      wanted == {gen.tasks[k].sourceId : k \in 1..Len(gen.tasks)}
      Keep(x) == ~(/\ x.companyId = c
                   /\ x.status \in OpenStatuses
                   /\ x.source \in AutoSources
                   /\ x.sourceId \notin wanted)
      kept == SelectSeq(ts, Keep)
  IN IF gen.threw THEN [threw |-> TRUE, tasks |-> ts]
     ELSE [threw |-> FALSE,
           tasks |-> markOverdue(insertNew(kept, gen.tasks, existingSourceIds(kept, c), c),
                                 c, t)]

\* A whole syncTasks call when nothing interleaves: whether it threw, and the
\* backlog it leaves.
syncResult(ts, edb, sdb, gdb, ev, c, p, t, fail) ==
  LET gen == generateTasks(edb, sdb, gdb, ev, c, p, t, fail)
  IN IF gen.threw THEN [threw |-> TRUE, tasks |-> ts]
     ELSE [threw |-> FALSE,
           tasks |-> markOverdue(insertNew(ts, gen.tasks, existingSourceIds(ts, c), c),
                                 c, t)]

\* The backlog a whole syncTasks call leaves when nothing interleaves.
syncedBacklog(ts, edb, sdb, gdb, ev, c, p, t, fail) ==
  syncResult(ts, edb, sdb, gdb, ev, c, p, t, fail).tasks

(***************************************************************************)
(* esgScoring.ts                                                           *)
(***************************************************************************)
Max(a, b) == IF a >= b THEN a ELSE b
Min(a, b) == IF a <= b THEN a ELSE b

\* Variant: no upper clamp.
Clamp_NoUpper(h) == Max(0, h)

\* Math.max(0, Math.min(100, score)), score in hundredths.
Clamp(h) == Max(0, Min(10000, h))

\* Number(x || 0)
NumberOr0(x) == Number(Or(x, N(0)))

\* The fallback divisor of calculateEnvironmentalScore.
FallbackEmployeeCount == 100

\* Variant: the fallback divisor is 1.
validatedEmployeeCount_One(company) ==
  LET employeeCount == NumberOr0(company.employeeCount)
  IN IF isNaN(employeeCount) \/ employeeCount.v <= 0
     THEN N(1)
     ELSE Number(company.employeeCount)

\* The employeeCount of the company object after the validation block
\* (lines 20-25): an invalid count is overwritten with the fallback.
validatedEmployeeCount(company) ==
  LET employeeCount == NumberOr0(company.employeeCount)
  IN IF isNaN(employeeCount) \/ employeeCount.v <= 0
     THEN N(FallbackEmployeeCount)
     ELSE Number(company.employeeCount)

\* console.warn is called exactly when the count is invalid.
employeeCountWarning(company) ==
  LET employeeCount == NumberOr0(company.employeeCount)
  IN isNaN(employeeCount) \/ employeeCount.v <= 0

\* Variant: the thresholds of the penalties belong to the penalised bands.
energyBand_Inclusive(amount, ec) ==
  IF ~isNaN(amount) /\ amount.v > 0 /\ ec > 0
  THEN IF amount.v >= 500 * ec THEN 0 - 1500
       ELSE IF amount.v >= 300 * ec THEN 0 - 800
       ELSE IF amount.v < 150 * ec THEN 500 ELSE 0
  ELSE 0

\* A banded per-employee adjustment: applies only to a positive amount.
energyBand(amount, ec) ==
  IF ~isNaN(amount) /\ amount.v > 0 /\ ec > 0
  THEN IF amount.v > 500 * ec THEN 0 - 1500
       ELSE IF amount.v > 300 * ec THEN 0 - 800
       ELSE IF amount.v < 150 * ec THEN 500 ELSE 0
  ELSE 0

wasteBand(amount, ec) ==
  IF ~isNaN(amount) /\ amount.v > 0 /\ ec > 0
  THEN IF amount.v > 100 * ec THEN 0 - 1500
       ELSE IF amount.v > 50 * ec THEN 0 - 800
       ELSE 500
  ELSE 0

waterBand(amount, ec) ==
  IF ~isNaN(amount) /\ amount.v > 0 /\ ec > 0
  THEN IF amount.v > 5 * ec THEN 0 - 1000
       ELSE IF amount.v < 2 * ec THEN 500 ELSE 0
  ELSE 0

\* score += renewableEnergyPercent * 0.3 (percent in tenths, result in hundredths)
renewableTerm(r) ==
  IF ~isNaN(r) /\ r.v >= 0 /\ r.v <= 1000 THEN 3 * r.v ELSE 0

carbonBand(amount, ec) ==
  IF ~isNaN(amount) /\ amount.v > 0 /\ ec > 0
  THEN IF amount.v > 5 * ec THEN 0 - 1000
       ELSE IF amount.v < 2 * ec THEN 500 ELSE 0
  ELSE 0

\* calculateEnvironmentalScore, in hundredths of a point.
calculateEnvironmentalScore(metrics, company) ==
  LET ec == validatedEmployeeCount(company).v
  IN N(Clamp(10000
             + energyBand(NumberOr0(metrics.electricityUsageKwh), ec)
             + wasteBand(NumberOr0(metrics.wasteGeneratedKg), ec)
             + waterBand(NumberOr0(metrics.waterUsageKL), ec)
             + renewableTerm(NumberOr0(metrics.renewableEnergyPercent))
             + carbonBand(NumberOr0(metrics.carbonEmissionsTons), ec)))

\* A quotient n/d with d > 0, or NaN.
Frac(n, d) == [nan |-> FALSE, n |-> n, d |-> d]
FracNaN == [nan |-> TRUE, n |-> 0, d |-> 1]

\* (a / b) * 100 for JavaScript numbers a and b, b not 0.
PercentOf(a, b) ==
  IF isNaN(a) \/ isNaN(b) THEN FracNaN
  ELSE IF b.v > 0 THEN Frac(100 * a.v, b.v)
  ELSE Frac(0 - (100 * a.v), 0 - b.v)

\* femalePercentage of calculateSocialScore (lines 83-94).
femalePercentage(m) ==
  IF NotNullish(m.femalePercentWorkforce)
  THEN (IF isNaN(m.femalePercentWorkforce) THEN FracNaN
        ELSE Frac(Number(m.femalePercentWorkforce).v, 1))
  ELSE IF Truthy(m.femaleEmployees) /\ Truthy(m.totalEmployees)
  THEN PercentOf(Number(m.femaleEmployees), Number(m.totalEmployees))
  ELSE IF Truthy(m.totalEmployeesPermanent)
  THEN LET a == Number(m.totalEmployeesPermanent)
           b == NumberOr0(m.totalEmployeesContractual)
       IN IF Truthy(m.femaleEmployees) /\ ~isNaN(a) /\ ~isNaN(b) /\ a.v + b.v > 0
          THEN PercentOf(Number(m.femaleEmployees), N(a.v + b.v))
          ELSE Frac(0, 1)
  ELSE Frac(0, 1)

diversityPoints(fp) ==
  IF ~fp.nan /\ fp.n > 0
  THEN IF fp.n >= 40 * fp.d THEN 2500
       ELSE IF fp.n >= 30 * fp.d THEN 1800
       ELSE IF fp.n >= 20 * fp.d THEN 1200
       ELSE IF fp.n >= 10 * fp.d THEN 600 ELSE 0
  ELSE 0

trainingPoints(h) ==
  IF ~isNaN(h) /\ h.v > 0
  THEN IF h.v >= 40 THEN 2500
       ELSE IF h.v >= 24 THEN 1800
       ELSE IF h.v >= 12 THEN 1200
       ELSE IF h.v >= 6 THEN 600 ELSE 0
  ELSE 0

\* Variant: the rate is banded without the test of the denominator.
safetyPoints_Unguarded(incidents, totalEmployees) ==
  IF ~isNaN(incidents) /\ ~isNaN(totalEmployees)
  THEN IF incidents.v = 0 THEN 2500
       ELSE IF 100 * incidents.v < totalEmployees.v THEN 1800
       ELSE IF 100 * incidents.v < 3 * totalEmployees.v THEN 1000
       ELSE 0 - 1000
  ELSE 0

\* incidentRate = (incidents / totalEmployees) * 100
safetyPoints(incidents, totalEmployees) ==
  IF ~isNaN(incidents) /\ ~isNaN(totalEmployees) /\ totalEmployees.v > 0
  THEN IF incidents.v = 0 THEN 2500
       ELSE IF 100 * incidents.v < totalEmployees.v THEN 1800
       ELSE IF 100 * incidents.v < 3 * totalEmployees.v THEN 1000
       ELSE 0 - 1000
  ELSE 0

retentionPoints(t) ==
  IF ~isNaN(t) /\ t.v >= 0
  THEN IF t.v < 5 THEN 2500
       ELSE IF t.v < 10 THEN 1800
       ELSE IF t.v < 15 THEN 1200
       ELSE IF t.v < 25 THEN 600 ELSE 0 - 500
  ELSE 0

\* calculateSocialScore, in hundredths of a point.
calculateSocialScore(m) ==
  N(Clamp(5000
          + diversityPoints(femalePercentage(m))
          + trainingPoints(NumberOr0(Or(m.totalTrainingHoursPerEmployee, m.avgTrainingHours)))
          + safetyPoints(NumberOr0(Or(m.accidentIncidents, m.workplaceIncidents)),
                         NumberOr0(Or(m.totalEmployeesPermanent, m.totalEmployees)))
          + retentionPoints(NumberOr0(m.employeeTurnoverPercent))))

\* Variant: the middle band starts at one third instead of 0.33.
independencePoints_Third(independentDirectors, boardMembers) ==
  IF ~isNaN(independentDirectors) /\ ~isNaN(boardMembers) /\ boardMembers.v > 0
  THEN IF 2 * independentDirectors.v >= boardMembers.v THEN 3000
       ELSE IF 3 * independentDirectors.v > boardMembers.v THEN 2000
       ELSE IF 4 * independentDirectors.v >= boardMembers.v THEN 1000 ELSE 0
  ELSE 0

independencePoints(independentDirectors, boardMembers) ==
  IF ~isNaN(independentDirectors) /\ ~isNaN(boardMembers) /\ boardMembers.v > 0
  THEN IF 2 * independentDirectors.v >= boardMembers.v THEN 3000
       ELSE IF 100 * independentDirectors.v >= 33 * boardMembers.v THEN 2000
       ELSE IF 4 * independentDirectors.v >= boardMembers.v THEN 1000 ELSE 0
  ELSE 0

\* metrics.x === true
IsTrue(x) == x.k = "bool" /\ x.v = 1

violationPoints(v) ==
  IF ~isNaN(v)
  THEN IF v.v = 0 THEN 3000
       ELSE IF v.v = 1 THEN 1500
       ELSE IF v.v = 2 THEN 500 ELSE 0 - 2000
  ELSE 0

\* calculateGovernanceScore, in hundredths of a point.
calculateGovernanceScore(m) ==
  N(Clamp(5000
          + independencePoints(NumberOr0(m.independentDirectors), NumberOr0(m.boardMembers))
          + (IF IsTrue(m.antiCorruptionPolicy) THEN 2000 ELSE 0)
          + (IF IsTrue(m.dataPrivacyPolicy) THEN 2000 ELSE 0)
          + violationPoints(NumberOr0(m.complianceViolations))))

\* Math.round(x * 10) / 10 in tenths, for x >= 0 given in hundredths.
Round1FromHundredths(h) == (h + 5) \div 10

\* Math.round(x * 10) / 10 in tenths, for x >= 0 given in thousandths.
Round1FromThousandths(t) == (t + 50) \div 100

\* Variant: the governance snapshot is not checked.
missingMetricsOf_NoGov(env, soc, gov) ==
  (IF ~env.present THEN <<"Environmental">> ELSE <<>>)
  \o (IF ~soc.present THEN <<"Social">> ELSE <<>>)

\* The names pushed to missingMetrics, in push order.
missingMetricsOf(env, soc, gov) ==
  (IF ~env.present THEN <<"Environmental">> ELSE <<>>)
  \o (IF ~soc.present THEN <<"Social">> ELSE <<>>)
  \o (IF ~gov.present THEN <<"Governance">> ELSE <<>>)

\* Variant: the weighted sum of the rounded pillar scores.
weightedOverall_Rounded(e, s, g) ==
  4 * (10 * Round1FromHundredths(e)) + 3 * (10 * Round1FromHundredths(s))
  + 3 * (10 * Round1FromHundredths(g))

\* The weighted sum (lines 215-218), in thousandths of a point.
weightedOverall(e, s, g) == 4 * e + 3 * s + 3 * g

\* calculateESGScore(companyId, period): the value returned or the error thrown.
calculateESGScore(edb, sdb, gdb, cdb, c, p) ==
  LET env == edb[<<c, p>>]
      soc == sdb[<<c, p>>]
      gov == gdb[<<c, p>>]
      company == cdb[c]
      missing == missingMetricsOf(env, soc, gov)
      e == calculateEnvironmentalScore(env, company)
      s == calculateSocialScore(soc)
      g == calculateGovernanceScore(gov)
  IN IF ~company.present
     THEN [kind |-> "error", error |-> "CompanyNotFound"]
     ELSE IF Len(missing) > 0
     THEN [kind |-> "error", error |-> "MissingMetrics", period |-> p,
           missing |-> missing]
     ELSE IF isNaN(e) \/ isNaN(s) \/ isNaN(g)
     THEN [kind |-> "error", error |-> "InvalidScore"]
     ELSE [kind |-> "scores",
           environmentalScore |-> Round1FromHundredths(e.v),
           socialScore |-> Round1FromHundredths(s.v),
           governanceScore |-> Round1FromHundredths(g.v),
           overallScore |-> Round1FromThousandths(weightedOverall(e.v, s.v, g.v))]

\* Whether the call reaches calculateEnvironmentalScore (line 201).
reachesScoring(edb, sdb, gdb, cdb, c, p) ==
  /\ cdb[c].present
  /\ Len(missingMetricsOf(edb[<<c, p>>], sdb[<<c, p>>], gdb[<<c, p>>])) = 0

(***************************************************************************)
(* Sample documents and inputs                                             *)
(***************************************************************************)
\* An environmental snapshot covering E1-E6 and E8.
EnvCovered ==
  [NewEnv EXCEPT !.electricityKwh = N(5000), !.waterUsageKL = N(100),
                 !.totalWasteTonnes = N(3), !.scope1Emissions = N(2),
                 !.scope2Emissions = N(2), !.renewableEnergyPercent = N(250),
                 !.environmentalPolicyExists = B(TRUE)]

\* The same snapshot without the water figure.
EnvNoWater == [EnvCovered EXCEPT !.waterUsageKL = Abs]

SocCovered ==
  [NewSoc EXCEPT !.totalEmployeesPermanent = N(50), !.femalePercentWorkforce = N(40),
                 !.totalTrainingHoursPerEmployee = N(12), !.accidentIncidents = N(0),
                 !.csrSpend = N(10), !.healthSafetyPolicies = Str]

GovCovered ==
  [NewGov EXCEPT !.boardMembers = N(5), !.independentDirectors = N(3),
                 !.antiCorruptionPolicy = B(TRUE), !.whistleblowerPolicyExists = B(TRUE),
                 !.codeOfConductExists = B(TRUE), !.esgCommitteeExists = B(TRUE)]

EnvSamples == {EnvCovered, EnvNoWater}

TypeWaste == <<"W", "a", "s", "t", "e">>
TypeGst == <<"G", "S", "T">>
EvidenceTypes == {TypeWaste}
ExpiryInputs == {Abs, N(1)}
MaxEvidence == 1

ManualDueDates == {1}
MaxManual == 1
\* How many tasks users have taken up (In Progress or Completed) at once.
MaxTakenUp == 1
\* The company whose users are active; the other one keeps the data and the
\* backlog it was left with.
Active == {"c1"}

\* A manual task as POST /tasks/:companyId stores it.
manualTask(c, dueDate, priority) ==
  [companyId |-> c, title |-> <<"manual">>, relatedTo |-> "Data",
   esgArea |-> "Overall", priority |-> priority,
   status |-> "Pending", dueDate |-> dueDate,
   source |-> "manual", sourceId |-> <<>>,
   completedAt |-> Abs]

\* The backlog of c2: the task a sync on day -2 created for its uncovered
\* requirement, and a manual task due on day 1.
SeededBacklog ==
  << createTask(complianceTasks([k \in Keys |-> EnvCovered], [k \in Keys |-> SocCovered],
                                [k \in Keys |-> GovCovered], <<>>, "c2", "P1", 0 - 2)[1],
                "c2"),
     manualTask("c2", 1, "Medium") >>

IdleCall ==
  [pc |-> "idle", companyId |-> "c1", period |-> "P1", newTasks |-> <<>>,
   existing |-> {}]

NoResult == [kind |-> "none"]

(***************************************************************************)
(* Actions                                                                 *)
(***************************************************************************)
scoreVars == <<scoreResult, warnings, companyDoc>>
analysisVars == <<readinessResult, completenessResult, edits>>
dataVars == <<envDB, socDB, govDB, companyDB, evidenceDB>>
routeVars == <<scoreDB, requests, subscriptionDB, trialResults>>

\* A score request that has not started.
IdleRequest == [pc |-> "idle", companyId |-> "c1", period |-> "P1",
                scores |-> NoResult, found |-> 0]

\* A Company document with the schema defaults of the subscription fields.
NewSubscription ==
  [present |-> TRUE, plan |-> "starter", subscriptionStatus |-> "active",
   isTrial |-> FALSE, trialStartDate |-> Abs, trialEndDate |-> Abs,
   subscriptionStartDate |-> Abs]

\* No score is stored, no score request runs, no trial was asked for.
RoutesIdle ==
  /\ scoreDB = <<>>
  /\ requests = [i \in CallIds |-> IdleRequest]
  /\ subscriptionDB = [c \in Companies |-> NewSubscription]
  /\ trialResults = <<>>

\* Time passes by one day.
Tick ==
  /\ now < MaxTime
  /\ now' = now + 1
  /\ UNCHANGED <<routeVars, dataVars, tasks, calls, lastSync, scoreVars, analysisVars>>

\* POST /metrics/environment: a new latest snapshot for (companyId, period).
SaveEnvironmentalMetrics(c, p, doc) ==
  /\ companyDB[c].present
  /\ envDB[<<c, p>>] # doc
  /\ envDB' = [envDB EXCEPT ![<<c, p>>] = doc]
  /\ UNCHANGED <<routeVars, now, socDB, govDB, companyDB, evidenceDB, tasks, calls, lastSync, scoreVars, analysisVars>>

\* POST /evidence/upload/:companyId
UploadEvidence(c, type, expiry) ==
  /\ companyDB[c].present
  /\ Len(evidenceDB) < MaxEvidence
  /\ evidenceDB' = Append(evidenceDB,
                          [id |-> Len(evidenceDB) + 1, companyId |-> c,
                           evidenceType |-> type, esgArea |-> "Environmental",
                           expiryDate |-> expiry])
  /\ UNCHANGED <<routeVars, now, envDB, socDB, govDB, companyDB, tasks, calls, lastSync, scoreVars, analysisVars>>

\* POST /tasks/:companyId: a manual task.
CreateManualTask(c, dueDate, priority) ==
  /\ companyDB[c].present
  /\ Len(tasks) < MaxTasks
  /\ Cardinality({i \in 1..Len(tasks) :
                    tasks[i].companyId = c /\ tasks[i].source = "manual"}) < MaxManual
  /\ tasks' = Append(tasks, manualTask(c, dueDate, priority))
  /\ UNCHANGED <<routeVars, now, dataVars, calls, lastSync, scoreVars, analysisVars>>

\* PUT /tasks/:id/status
UpdateTaskStatus(i, status) ==
  /\ i \in 1..Len(tasks)
  /\ tasks[i].status # status
  /\ tasks' = [tasks EXCEPT ![i] =
                 [@ EXCEPT !.status = status,
                           !.completedAt = IF status = "Completed" THEN N(now) ELSE @]]
  /\ UNCHANGED <<routeVars, now, dataVars, calls, lastSync, scoreVars, analysisVars>>

\* A whole syncTasks(companyId, userId, period) call with nothing interleaved.
SyncTasks(c, p, fail) ==
  LET res == syncResult(tasks, envDB, socDB, govDB, evidenceDB, c, p, now, fail)
  IN /\ Len(res.tasks) <= MaxTasks
     /\ tasks' = res.tasks
     /\ lastSync' = IF res.threw THEN "error" ELSE "ok"
     /\ UNCHANGED <<routeVars, now, dataVars, calls, scoreVars, analysisVars>>

\* syncTasks step by step, for calls that overlap.
\* Line 161: await generateTasks(...).
SyncGenerate(i, c, p, fail) ==
  LET gen == generateTasks(envDB, socDB, govDB, evidenceDB, c, p, now, fail)
  IN /\ calls[i].pc = "idle"
     /\ IF gen.threw
        THEN /\ lastSync' = "error"
             /\ UNCHANGED calls
        ELSE /\ calls' = [calls EXCEPT ![i] =
                            [pc |-> "find", companyId |-> c, period |-> p,
                             newTasks |-> gen.tasks, existing |-> {}]]
             /\ UNCHANGED lastSync
     /\ UNCHANGED <<routeVars, now, dataVars, tasks, scoreVars, analysisVars>>

\* Lines 164-173: await Task.find(...) and the map of sourceIds.
SyncFind(i) ==
  /\ calls[i].pc = "find"
  /\ calls' = [calls EXCEPT ![i].pc = "create",
                            ![i].existing = existingSourceIds(tasks, calls[i].companyId)]
  /\ UNCHANGED <<routeVars, now, dataVars, tasks, lastSync, scoreVars, analysisVars>>

\* Lines 176-184: one iteration of the for-loop.
SyncCreate(i) ==
  /\ calls[i].pc = "create"
  /\ IF calls[i].newTasks = <<>>
     THEN /\ calls' = [calls EXCEPT ![i].pc = "sweep"]
          /\ UNCHANGED tasks
     ELSE /\ IF shouldCreate(calls[i].existing, Head(calls[i].newTasks))
             THEN /\ Len(tasks) < MaxTasks
                  /\ tasks' = Append(tasks, createTask(Head(calls[i].newTasks),
                                                       calls[i].companyId))
             ELSE UNCHANGED tasks
          /\ calls' = [calls EXCEPT ![i].newTasks = Tail(@)]
  /\ UNCHANGED <<routeVars, now, dataVars, lastSync, scoreVars, analysisVars>>

\* Lines 187-197: the overdue sweep, then the call returns.
SyncSweep(i) ==
  /\ calls[i].pc = "sweep"
  /\ tasks' = markOverdue(tasks, calls[i].companyId, now)
  /\ calls' = [calls EXCEPT ![i] = IdleCall]
  /\ lastSync' = "ok"
  /\ UNCHANGED <<routeVars, now, dataVars, scoreVars, analysisVars>>

\* calculateESGScore(companyId, period) is called.
CalculateScore(c, p) ==
  LET scoring == reachesScoring(envDB, socDB, govDB, companyDB, c, p)
  IN /\ scoreResult' = calculateESGScore(envDB, socDB, govDB, companyDB, c, p)
     /\ warnings' = IF scoring /\ employeeCountWarning(companyDB[c])
                    THEN <<"Company employeeCount is invalid, defaulting to 100 for calculation">>
                    ELSE <<>>
     /\ companyDoc' = IF scoring
                      THEN [companyDB[c] EXCEPT !.employeeCount =
                              IF employeeCountWarning(companyDB[c])
                              THEN N(FallbackEmployeeCount) ELSE @]
                      ELSE companyDB[c]
     /\ UNCHANGED <<routeVars, now, dataVars, tasks, calls, lastSync, analysisVars>>

(***************************************************************************)
(* Specifications                                                          *)
(***************************************************************************)
\* The sequential world: every syncTasks call runs to completion on its own.
\* Users move open tasks forward; data is edited between calls.
Init ==
  /\ now = 0
  /\ envDB = [k \in Keys |-> EnvCovered]
  /\ socDB = [k \in Keys |-> SocCovered]
  /\ govDB = [k \in Keys |-> GovCovered]
  /\ companyDB = [c \in Companies |-> [present |-> TRUE, employeeCount |-> N(150)]]
  /\ evidenceDB = <<>>
  /\ tasks = SeededBacklog
  /\ calls = [i \in CallIds |-> IdleCall]
  /\ lastSync = "none"
  /\ scoreResult = NoResult
  /\ warnings = <<>>
  /\ companyDoc = NoCompany
  /\ readinessResult = NoResult
  /\ completenessResult = NoResult
  /\ edits = 0
  /\ RoutesIdle

\* Time and data edits.
Environment ==
  \/ Tick
  \/ \E c \in Active, p \in Periods, doc \in EnvSamples : SaveEnvironmentalMetrics(c, p, doc)
  \/ \E c \in Active, type \in EvidenceTypes, expiry \in ExpiryInputs :
       UploadEvidence(c, type, expiry)

\* Users add manual tasks and take open tasks up.
Users ==
  \/ \E c \in Active, d \in ManualDueDates : CreateManualTask(c, d, "Medium")
  \/ \E i \in 1..MaxTasks, status \in {"In Progress", "Completed"} :
       /\ i <= Len(tasks)
       /\ tasks[i].companyId \in Active
       /\ tasks[i].status \in OpenStatuses
       /\ \/ tasks[i].status = "In Progress"
          \/ Cardinality({j \in 1..Len(tasks) :
                            tasks[j].status \in {"In Progress", "Completed"}}) < MaxTakenUp
       /\ UpdateTaskStatus(i, status)

Next ==
  \/ Tick
  \/ \E c \in Active, p \in Periods, doc \in EnvSamples : SaveEnvironmentalMetrics(c, p, doc)
  \/ Users
  \/ \E c \in Active, p \in Periods : SyncTasks(c, p, {})

Spec == Init /\ [][Next]_vars

\* The sequential world with failing lookups inside generateTasks.
NextFail ==
  \/ Environment
  \/ \E c \in Active, p \in Periods, fail \in SUBSET Blocks : SyncTasks(c, p, fail)

SpecFail == Init /\ [][NextFail]_vars

\* Overlapping syncTasks calls for one company over fixed data.
InitConc ==
  /\ now = 0
  /\ envDB = [k \in Keys |-> EnvNoWater]
  /\ socDB = [k \in Keys |-> SocCovered]
  /\ govDB = [k \in Keys |-> GovCovered]
  /\ companyDB = [c \in Companies |-> [present |-> TRUE, employeeCount |-> N(150)]]
  /\ evidenceDB = <<>>
  /\ tasks = <<>>
  /\ calls = [i \in CallIds |-> IdleCall]
  /\ lastSync = "none"
  /\ scoreResult = NoResult
  /\ warnings = <<>>
  /\ companyDoc = NoCompany
  /\ readinessResult = NoResult
  /\ completenessResult = NoResult
  /\ edits = 0
  /\ RoutesIdle

NextConc ==
  \/ Tick
  \/ \E i \in CallIds, c \in Active, p \in Periods : SyncGenerate(i, c, p, {})
  \/ \E i \in CallIds : SyncFind(i)
  \/ \E i \in CallIds : SyncCreate(i)
  \/ \E i \in CallIds : SyncSweep(i)

SpecConc == InitConc /\ [][NextConc]_vars

\* Scoring inputs: one (company, period) with every combination of the
\* values below; absent, zero, negative, non-numeric and out-of-range
\* values are included.
EnvInputs ==
  {NoEnv} \cup
  {[NewEnv EXCEPT !.electricityUsageKwh = el, !.wasteGeneratedKg = wa,
                  !.waterUsageKL = wt, !.carbonEmissionsTons = ca,
                  !.renewableEnergyPercent = re] :
     el \in {Abs, Str, N(45000), N(45150), N(80000)},
     wa \in {Abs, N(20000)},
     wt \in {Abs, N(1000)},
     ca \in {Abs, N(1000)},
     re \in {Abs, N(338), N(1000), N(1500)}}
  \cup {[NewEnv EXCEPT !.electricityKwh = el] : el \in {N(1000), N(45150), N(80000)}}

SocInputs ==
  {NoSoc, NewSoc,
   [NewSoc EXCEPT !.femalePercentWorkforce = N(45), !.totalTrainingHoursPerEmployee = N(40),
                  !.accidentIncidents = N(0), !.totalEmployeesPermanent = N(50),
                  !.employeeTurnoverPercent = N(3)],
   [NewSoc EXCEPT !.femaleEmployees = N(30), !.totalEmployees = N(100),
                  !.avgTrainingHours = N(10), !.workplaceIncidents = N(5),
                  !.employeeTurnoverPercent = N(30)],
   [NewSoc EXCEPT !.femalePercentWorkforce = Str, !.totalEmployees = N(0 - 4),
                  !.workplaceIncidents = N(9), !.employeeTurnoverPercent = N(0 - 3)],
   [NewSoc EXCEPT !.femalePercentWorkforce = N(0), !.femaleEmployees = N(50),
                  !.totalEmployees = N(100), !.totalTrainingHoursPerEmployee = N(0),
                  !.avgTrainingHours = N(40), !.accidentIncidents = N(0),
                  !.workplaceIncidents = N(5), !.employeeTurnoverPercent = N(3)],
   [NewSoc EXCEPT !.totalEmployees = Str, !.femaleEmployees = N(30),
                  !.workplaceIncidents = N(5), !.avgTrainingHours = N(10)],
   [NewSoc EXCEPT !.totalEmployees = N(0), !.femaleEmployees = N(30),
                  !.accidentIncidents = N(2)]}

GovInputs ==
  {NoGov, NewGov,
   [NewGov EXCEPT !.boardMembers = N(5), !.independentDirectors = N(3),
                  !.antiCorruptionPolicy = B(TRUE), !.dataPrivacyPolicy = B(TRUE)],
   [NewGov EXCEPT !.boardMembers = N(0), !.independentDirectors = N(2),
                  !.complianceViolations = N(3)],
   [NewGov EXCEPT !.boardMembers = Str, !.complianceViolations = N(1)],
   [NewGov EXCEPT !.boardMembers = N(5), !.independentDirectors = N(3),
                  !.complianceViolations = N(3)],
   [NewGov EXCEPT !.boardMembers = N(3), !.independentDirectors = N(1),
                  !.complianceViolations = N(2)],
   [NewGov EXCEPT !.boardMembers = N(4), !.independentDirectors = N(1),
                  !.complianceViolations = N(1), !.antiCorruptionPolicy = B(TRUE)],
   [NewGov EXCEPT !.boardMembers = N(5), !.independentDirectors = N(1),
                  !.complianceViolations = N(3)]}

CompanyInputs ==
  {NoCompany} \cup
  {[present |-> TRUE, employeeCount |-> ec] :
     ec \in {Abs, N(0), N(0 - 5), Str, N(150), N(10)}}

ScoredKey == <<"c1", "P1">>

InitScore ==
  /\ now = 0
  /\ \E e \in EnvInputs : envDB = [k \in Keys |-> IF k = ScoredKey THEN e ELSE NoEnv]
  /\ \E s \in SocInputs : socDB = [k \in Keys |-> IF k = ScoredKey THEN s ELSE NoSoc]
  /\ \E g \in GovInputs : govDB = [k \in Keys |-> IF k = ScoredKey THEN g ELSE NoGov]
  /\ \E co \in CompanyInputs :
       companyDB = [c \in Companies |-> IF c = "c1" THEN co ELSE NoCompany]
  /\ evidenceDB = <<>>
  /\ tasks = <<>>
  /\ calls = [i \in CallIds |-> IdleCall]
  /\ lastSync = "none"
  /\ scoreResult = NoResult
  /\ warnings = <<>>
  /\ companyDoc = NoCompany
  /\ readinessResult = NoResult
  /\ completenessResult = NoResult
  /\ edits = 0
  /\ RoutesIdle

NextScore == \E c \in Companies, p \in Periods : CalculateScore(c, p)

SpecScore == InitScore /\ [][NextScore]_vars

\* Readiness inputs: one (company, period) with every combination of the
\* snapshots and evidence lists below.
TypePosh == <<"P", "O", "S", "H", " ", "P", "o", "l", "i", "c", "y">>

EnvReadyInputs ==
  {NoEnv} \cup
  {[EnvCovered EXCEPT !.waterUsageKL = wt, !.scope2Emissions = s2,
                      !.renewableEnergyPercent = re,
                      !.environmentalPolicyExists = po] :
     wt \in {Abs, N(100)}, s2 \in {Abs, N(2)}, re \in {N(0), N(250)},
     po \in {B(FALSE), B(TRUE)}}

SocReadyInputs ==
  {NoSoc} \cup
  {[SocCovered EXCEPT !.totalTrainingHoursPerEmployee = tr, !.csrSpend = cs,
                      !.accidentIncidents = ac] :
     tr \in {Abs, N(12)}, cs \in {Abs, N(10)}, ac \in {Abs, N(0)}}

GovReadyInputs ==
  {NoGov} \cup
  {[GovCovered EXCEPT !.boardMembers = bm, !.antiCorruptionPolicy = ap,
                      !.esgCommitteeExists = ec] :
     bm \in {Abs, N(5)}, ap \in {B(FALSE), B(TRUE)}, ec \in {B(FALSE), B(TRUE)}}

evidenceDoc(id, c, type, expiry) ==
  [id |-> id, companyId |-> c, evidenceType |-> type, esgArea |-> "Environmental",
   expiryDate |-> expiry]

EvidenceReadyInputs ==
  {<<>>, <<evidenceDoc(1, "c1", TypeWaste, Abs)>>, <<evidenceDoc(1, "c1", TypePosh, Abs)>>}

\* GET /compliance/:companyId: calculateBRSRReadiness(companyId, period) is called.
CalculateReadiness(c, p) ==
  LET readiness == calculateBRSRReadiness(envDB, socDB, govDB, evidenceDB, c, p)
  IN /\ companyDB[c].present
     /\ readinessResult' = [kind |-> "readiness", companyId |-> c,
                            overallReadiness |-> readiness.overallReadiness,
                            breakdown |-> readiness.breakdown,
                            nextSteps |-> readiness.nextSteps]
     /\ UNCHANGED <<routeVars, now, dataVars, tasks, calls, lastSync, scoreVars,
                    completenessResult, edits>>

InitReady ==
  /\ now = 0
  /\ \E e \in EnvReadyInputs : envDB = [k \in Keys |-> IF k = ScoredKey THEN e ELSE NoEnv]
  /\ \E x \in SocReadyInputs : socDB = [k \in Keys |-> IF k = ScoredKey THEN x ELSE NoSoc]
  /\ \E g \in GovReadyInputs : govDB = [k \in Keys |-> IF k = ScoredKey THEN g ELSE NoGov]
  /\ companyDB = [c \in Companies |-> [present |-> TRUE, employeeCount |-> N(150)]]
  /\ evidenceDB \in EvidenceReadyInputs
  /\ tasks = <<>>
  /\ calls = [i \in CallIds |-> IdleCall]
  /\ lastSync = "none"
  /\ scoreResult = NoResult
  /\ warnings = <<>>
  /\ companyDoc = NoCompany
  /\ readinessResult = NoResult
  /\ completenessResult = NoResult
  /\ edits = 0
  /\ RoutesIdle

NextReady == \E c \in Companies, p \in Periods : CalculateReadiness(c, p)

SpecReady == InitReady /\ [][NextReady]_vars

(***************************************************************************)
(* dataCompleteness.ts                                                     *)
(***************************************************************************)
\* x ?? y
Coalesce(x, y) == IF NotNullish(x) THEN x ELSE y

\* Variant: a zero counts as missing too.
isMissing_Falsy(value) == ~Truthy(value)

\* null, undefined, '' or NaN; a stored string is never empty.
isMissing(value) == value.k = "abs" \/ value.k = "nan"

Field(key, label, critical) == [key |-> key, label |-> label, critical |-> critical]

envRequiredFields ==
  << Field("electricityKwh", "Electricity (kWh)", TRUE),
     Field("fuelLitres", "Fuel (L)", TRUE),
     Field("scope1Emissions", "Scope 1 Emissions", TRUE),
     Field("scope2Emissions", "Scope 2 Emissions", TRUE),
     Field("waterUsageKL", "Water Usage (KL)", TRUE),
     Field("totalWasteTonnes", "Total Waste (tonnes)", TRUE),
     Field("renewableEnergyPercent", "Renewable Energy %", FALSE),
     Field("totalEnergyConsumption", "Total Energy Consumption", FALSE) >>

socialRequiredFields ==
  << Field("totalEmployeesPermanent", "Permanent Employees", TRUE),
     Field("totalEmployeesContractual", "Contractual Employees", TRUE),
     Field("femalePercentWorkforce", "Female % of Workforce", TRUE),
     Field("accidentIncidents", "Accident Incidents", TRUE),
     Field("totalTrainingHoursPerEmployee", "Training Hours/Employee", TRUE),
     Field("csrSpend", "CSR Spend", FALSE),
     Field("totalEmployees", "Total Employees (Legacy)", FALSE),
     Field("femaleEmployees", "Female Employees (Legacy)", FALSE) >>

govRequiredFields ==
  << Field("boardMembers", "Board Members", TRUE),
     Field("independentDirectors", "Independent Directors", TRUE),
     Field("complianceViolations", "Compliance Violations", TRUE),
     Field("antiCorruptionPolicy", "Anti-Corruption Policy", FALSE),
     Field("esgCommitteeExists", "ESG Committee", FALSE),
     Field("boardDiversityPercent", "Board Diversity %", FALSE) >>

\* key.replace('Kwh', 'UsageKwh')
replaceKwh(key) == IF key = "electricityKwh" THEN "electricityUsageKwh" ELSE key

\* key.replace('Litres', 'ConsumptionLitres')
replaceLitres(key) == IF key = "fuelLitres" THEN "fuelConsumptionLitres" ELSE key

\* The value the environmental function classifies a field by.
envValueOf(metrics, key) ==
  Coalesce(Coalesce(metrics[key], metrics[replaceKwh(key)]), metrics[replaceLitres(key)])

\* The value the social and governance functions classify a field by.
plainValueOf(metrics, key) == metrics[key]

\* Math.round((completedCount / totalFields) * 100)
completenessOf(completedCount, totalFields) ==
  (200 * completedCount + totalFields) \div (2 * totalFields)

\* The forEach over requiredFields and the percentage, given the value read
\* for each field.
classify(fields, values) ==
  LET isDone(i) == ~isMissing(values[i])
      labelOf(f) == f.label
      done == SelectSeq([i \in 1..Len(fields) |-> [f |-> fields[i], ok |-> isDone(i)]],
                        LAMBDA r : r.ok)
      open == SelectSeq([i \in 1..Len(fields) |-> [f |-> fields[i], ok |-> isDone(i)]],
                        LAMBDA r : ~r.ok)
      crit == SelectSeq(open, LAMBDA r : r.f.critical)
  IN [completeness |-> completenessOf(Len(done), Len(fields)),
      completed |-> [i \in 1..Len(done) |-> labelOf(done[i].f)],
      missing |-> [i \in 1..Len(open) |-> labelOf(open[i].f)],
      missingCritical |-> [i \in 1..Len(crit) |-> labelOf(crit[i].f)]]

getEnvironmentalCompleteness(metrics) ==
  classify(envRequiredFields,
           [i \in 1..Len(envRequiredFields) |-> envValueOf(metrics, envRequiredFields[i].key)])

getSocialCompleteness(metrics) ==
  classify(socialRequiredFields,
           [i \in 1..Len(socialRequiredFields) |->
              plainValueOf(metrics, socialRequiredFields[i].key)])

getGovernanceCompleteness(metrics) ==
  classify(govRequiredFields,
           [i \in 1..Len(govRequiredFields) |-> plainValueOf(metrics, govRequiredFields[i].key)])

\* Field edits: the fields of each snapshot that the coverage predicates and
\* the scores read, and the values a field is given.
BooleanFields ==
  {"environmentalPolicyExists", "antiCorruptionPolicy", "dataPrivacyPolicy",
   "whistleblowerPolicyExists", "codeOfConductExists", "esgCommitteeExists"}
StringFields == {"healthSafetyPolicies"}
EnvFields == DOMAIN NoEnv \ {"present"}
SocFields == DOMAIN NoSoc \ {"present"}
GovFields == DOMAIN NoGov \ {"present"}

FieldValues(f) ==
  IF f \in BooleanFields THEN {B(FALSE), B(TRUE)}
  ELSE IF f \in StringFields THEN {Abs, Str}
  ELSE IF f = "complianceViolations" THEN {N(0), N(7)}
  ELSE {Abs, N(0), N(7)}

MaxEdits == 1

\* PUT /metrics/environment/:id with one field in the body (a field is
\* dropped by a newer snapshot without it).
UpdateEnvironmentalMetrics(c, p, f, v) ==
  /\ edits < MaxEdits
  /\ envDB[<<c, p>>].present
  /\ envDB[<<c, p>>][f] # v
  /\ envDB' = [envDB EXCEPT ![<<c, p>>][f] = v]
  /\ edits' = edits + 1
  /\ UNCHANGED <<routeVars, now, socDB, govDB, companyDB, evidenceDB, tasks, calls, lastSync,
                 scoreVars, readinessResult, completenessResult>>

\* PUT /metrics/social/:id
UpdateSocialMetrics(c, p, f, v) ==
  /\ edits < MaxEdits
  /\ socDB[<<c, p>>].present
  /\ socDB[<<c, p>>][f] # v
  /\ socDB' = [socDB EXCEPT ![<<c, p>>][f] = v]
  /\ edits' = edits + 1
  /\ UNCHANGED <<routeVars, now, envDB, govDB, companyDB, evidenceDB, tasks, calls, lastSync,
                 scoreVars, readinessResult, completenessResult>>

\* PUT /metrics/governance/:id
UpdateGovernanceMetrics(c, p, f, v) ==
  /\ edits < MaxEdits
  /\ govDB[<<c, p>>].present
  /\ govDB[<<c, p>>][f] # v
  /\ govDB' = [govDB EXCEPT ![<<c, p>>][f] = v]
  /\ edits' = edits + 1
  /\ UNCHANGED <<routeVars, now, envDB, socDB, companyDB, evidenceDB, tasks, calls, lastSync,
                 scoreVars, readinessResult, completenessResult>>

\* DELETE /evidence/:id, for the record uploaded last.
DeleteEvidence ==
  /\ evidenceDB # <<>>
  /\ evidenceDB' = SubSeq(evidenceDB, 1, Len(evidenceDB) - 1)
  /\ UNCHANGED <<routeVars, now, envDB, socDB, govDB, companyDB, tasks, calls, lastSync,
                 scoreVars, analysisVars>>

CoverageEvidenceTypes == {TypeWaste, TypePosh, TypeGst}

\* The snapshots of c1 are all fresh or all filled in; then fields are
\* edited and evidence comes and goes.
InitCoverage ==
  /\ now = 0
  /\ \E filled \in BOOLEAN :
       /\ envDB = [k \in Keys |-> IF k # ScoredKey THEN NoEnv
                                   ELSE IF filled THEN EnvCovered ELSE NewEnv]
       /\ socDB = [k \in Keys |-> IF k # ScoredKey THEN NoSoc
                                   ELSE IF filled THEN SocCovered ELSE NewSoc]
       /\ govDB = [k \in Keys |-> IF k # ScoredKey THEN NoGov
                                   ELSE IF filled THEN GovCovered ELSE NewGov]
  /\ companyDB = [c \in Companies |-> [present |-> TRUE, employeeCount |-> N(150)]]
  /\ evidenceDB = <<>>
  /\ tasks = <<>>
  /\ calls = [i \in CallIds |-> IdleCall]
  /\ lastSync = "none"
  /\ scoreResult = NoResult
  /\ warnings = <<>>
  /\ companyDoc = NoCompany
  /\ readinessResult = NoResult
  /\ completenessResult = NoResult
  /\ edits = 0
  /\ RoutesIdle

NextCoverage ==
  \/ \E f \in EnvFields : \E v \in FieldValues(f) :
       UpdateEnvironmentalMetrics("c1", "P1", f, v)
  \/ \E f \in SocFields : \E v \in FieldValues(f) :
       UpdateSocialMetrics("c1", "P1", f, v)
  \/ \E f \in GovFields : \E v \in FieldValues(f) :
       UpdateGovernanceMetrics("c1", "P1", f, v)
  \/ \E type \in CoverageEvidenceTypes : UploadEvidence("c1", type, Abs)
  \/ DeleteEvidence

SpecCoverage == InitCoverage /\ [][NextCoverage]_vars

\* GET /esg/scorecard/:companyId: the completeness of the three snapshots
\* of the period shown.
GetScorecard(c, p) ==
  /\ envDB[<<c, p>>].present /\ socDB[<<c, p>>].present /\ govDB[<<c, p>>].present
  /\ LET res == [kind |-> "completeness", companyId |-> c,
                 environmental |-> getEnvironmentalCompleteness(envDB[<<c, p>>]),
                 social |-> getSocialCompleteness(socDB[<<c, p>>]),
                 governance |-> getGovernanceCompleteness(govDB[<<c, p>>])]
     IN /\ completenessResult # res
        /\ completenessResult' = res
  /\ UNCHANGED <<routeVars, now, dataVars, tasks, calls, lastSync, scoreVars, readinessResult, edits>>

NextComplete ==
  \/ \E f \in EnvFields : \E v \in FieldValues(f) :
       UpdateEnvironmentalMetrics("c1", "P1", f, v)
  \/ \E f \in SocFields : \E v \in FieldValues(f) :
       UpdateSocialMetrics("c1", "P1", f, v)
  \/ \E f \in GovFields : \E v \in FieldValues(f) :
       UpdateGovernanceMetrics("c1", "P1", f, v)
  \/ GetScorecard("c1", "P1")

SpecComplete == InitCoverage /\ [][NextComplete]_vars

\* One syncTasks call at a time over fixed data: every combination of the
\* snapshots and the evidence record below, at every time up to MaxTime.
EnvNoScope2 == [EnvCovered EXCEPT !.scope2Emissions = Abs]
EnvLegacyElectricity == [NewEnv EXCEPT !.electricityUsageKwh = N(7)]

EnvGenerateInputs == {NewEnv, EnvCovered, EnvNoWater, EnvNoScope2, EnvLegacyElectricity}
SocGenerateInputs == {NewSoc, SocCovered}
GovGenerateInputs == {NewGov, GovCovered}

\* Expiry dates before, inside, at the end of and beyond the 30-day window.
ExpiryGenerateInputs == {Abs, N(0), N(1), N(31), N(33)}

EvidenceGenerateInputs ==
  {<<>>} \cup {<<evidenceDoc(1, "c1", TypeGst, x)>> : x \in ExpiryGenerateInputs}

InitGenerate ==
  /\ now \in 0..MaxTime
  /\ \E e \in EnvGenerateInputs : envDB = [k \in Keys |-> IF k = ScoredKey THEN e ELSE NoEnv]
  /\ \E so \in SocGenerateInputs : socDB = [k \in Keys |-> IF k = ScoredKey THEN so ELSE NoSoc]
  /\ \E g \in GovGenerateInputs : govDB = [k \in Keys |-> IF k = ScoredKey THEN g ELSE NoGov]
  /\ companyDB = [c \in Companies |-> [present |-> TRUE, employeeCount |-> N(150)]]
  /\ evidenceDB \in EvidenceGenerateInputs
  /\ tasks = <<>>
  /\ calls = [i \in CallIds |-> IdleCall]
  /\ lastSync = "none"
  /\ scoreResult = NoResult
  /\ warnings = <<>>
  /\ companyDoc = NoCompany
  /\ readinessResult = NoResult
  /\ completenessResult = NoResult
  /\ edits = 0
  /\ RoutesIdle

NextGenerate ==
  \/ lastSync = "none" /\ SyncGenerate("A", "c1", "P1", {})
  \/ SyncFind("A")
  \/ SyncCreate("A")
  \/ SyncSweep("A")

SpecGenerate == InitGenerate /\ [][NextGenerate]_vars

\* One company with snapshots for two reporting periods: syncTasks is called
\* for either period, one call at a time, over fixed data and at a fixed time.
ReportingPeriods == {"P1", "P2"}

InitPeriods ==
  /\ now \in 0..MaxTime
  /\ \E e1 \in EnvGenerateInputs, e2 \in EnvGenerateInputs :
       envDB = [k \in Companies \X ReportingPeriods |->
                  IF k[1] # "c1" THEN NoEnv ELSE IF k[2] = "P1" THEN e1 ELSE e2]
  /\ \E s1 \in SocGenerateInputs, s2 \in SocGenerateInputs :
       socDB = [k \in Companies \X ReportingPeriods |->
                  IF k[1] # "c1" THEN NoSoc ELSE IF k[2] = "P1" THEN s1 ELSE s2]
  /\ govDB = [k \in Companies \X ReportingPeriods |->
                IF k[1] # "c1" THEN NoGov ELSE GovCovered]
  /\ companyDB = [c \in Companies |-> [present |-> TRUE, employeeCount |-> N(150)]]
  /\ evidenceDB = <<>>
  /\ tasks = <<>>
  /\ calls = [i \in CallIds |-> IdleCall]
  /\ lastSync = "none"
  /\ scoreResult = NoResult
  /\ warnings = <<>>
  /\ companyDoc = NoCompany
  /\ readinessResult = NoResult
  /\ completenessResult = NoResult
  /\ edits = 0
  /\ RoutesIdle

NextPeriods == \E p \in ReportingPeriods : SyncTasks("c1", p, {})

SpecPeriods == InitPeriods /\ [][NextPeriods]_vars

(***************************************************************************)
(* routes/esg.ts: POST /calculate/:companyId                               *)
(***************************************************************************)
\* new ESGScore({companyId, period, ...scores}); calculatedAt defaults to now.
newESGScore(c, p, scores, t) ==
  [companyId |-> c, period |-> p,
   environmentalScore |-> scores.environmentalScore,
   socialScore |-> scores.socialScore,
   governanceScore |-> scores.governanceScore,
   overallScore |-> scores.overallScore,
   calculatedAt |-> t]

\* ESGScore.findOne({companyId, period}): the position of the first stored
\* record of the pair, or 0.
findOneScore(db, c, p) ==
  LET hits == {i \in 1..Len(db) : db[i].companyId = c /\ db[i].period = p}
  IN IF hits = {} THEN 0 ELSE CHOOSE i \in hits : \A j \in hits : i <= j

\* Lines 27-37: the company is looked up and the scores are calculated. A
\* missing company or a thrown error ends the request with nothing stored.
RequestCalculate(i, c, p) ==
  LET scores == calculateESGScore(envDB, socDB, govDB, companyDB, c, p)
  IN /\ requests[i].pc = "idle"
     /\ companyDB[c].present
     /\ scores.kind = "scores"
     /\ requests' = [requests EXCEPT ![i] =
                       [pc |-> "find", companyId |-> c, period |-> p,
                        scores |-> scores, found |-> 0]]
     /\ UNCHANGED <<now, dataVars, tasks, calls, lastSync, scoreVars, analysisVars,
                    scoreDB, subscriptionDB, trialResults>>

\* Line 40: await ESGScore.findOne({ companyId, period }).
RequestFind(i) ==
  /\ requests[i].pc = "find"
  /\ requests' = [requests EXCEPT ![i].pc = "save",
                                  ![i].found = findOneScore(scoreDB, requests[i].companyId,
                                                            requests[i].period)]
  /\ UNCHANGED <<now, dataVars, tasks, calls, lastSync, scoreVars, analysisVars,
                 scoreDB, subscriptionDB, trialResults>>

\* Lines 42-56: the record that was found is overwritten and saved, or a new
\* record is inserted.
RequestSave(i) ==
  LET r == requests[i]
  IN /\ r.pc = "save"
     /\ scoreDB' = IF r.found # 0
                   THEN [scoreDB EXCEPT ![r.found] =
                           newESGScore(r.companyId, r.period, r.scores, now)]
                   ELSE Append(scoreDB, newESGScore(r.companyId, r.period, r.scores, now))
     /\ requests' = [requests EXCEPT ![i] = IdleRequest]
     /\ UNCHANGED <<now, dataVars, tasks, calls, lastSync, scoreVars, analysisVars,
                    subscriptionDB, trialResults>>

\* Score requests of one company, possibly overlapping, while time passes and
\* its environmental snapshot is edited.
NextStore ==
  \/ Tick
  \/ \E c \in Active, p \in Periods, doc \in EnvSamples : SaveEnvironmentalMetrics(c, p, doc)
  \/ \E i \in CallIds, c \in Active, p \in Periods : RequestCalculate(i, c, p)
  \/ \E i \in CallIds : RequestFind(i)
  \/ \E i \in CallIds : RequestSave(i)

SpecStore == Init /\ [][NextStore]_vars

(***************************************************************************)
(* Trials: startTrial, handleTrialExpiration, convertTrialToPaid            *)
(***************************************************************************)
TRIAL_DURATION_DAYS == 14

\* The last day the trial model runs to, and the number of startTrial calls.
MaxTrialTime == 28
MaxTrialCalls == 3

\* startTrial for the company document co on day t: the result returned and
\* the document as saved.
startTrial(co, t) ==
  IF ~co.present
  THEN [success |-> FALSE, message |-> "Company not found", company |-> co]
  ELSE IF co.plan # "pro"
  THEN [success |-> FALSE, message |-> "Trial only available for Pro plan", company |-> co]
  ELSE IF co.isTrial /\ Truthy(co.trialEndDate) /\ t < co.trialEndDate.v
  THEN [success |-> FALSE, message |-> "Company is already on trial", company |-> co]
  ELSE IF co.subscriptionStatus = "active" /\ ~co.isTrial
  THEN [success |-> FALSE, message |-> "Company already has active subscription",
        company |-> co]
  ELSE [success |-> TRUE, message |-> "14-day free trial started",
        company |-> [co EXCEPT !.isTrial = TRUE, !.subscriptionStatus = "trial",
                               !.trialStartDate = N(t),
                               !.trialEndDate = N(t + TRIAL_DURATION_DAYS)]]

isTrialExpired(co, t) ==
  IF ~co.isTrial \/ ~Truthy(co.trialEndDate) THEN FALSE ELSE t >= co.trialEndDate.v

handleTrialExpiration(co, t) ==
  IF co.present /\ isTrialExpired(co, t) /\ co.subscriptionStatus = "trial"
  THEN [co EXCEPT !.plan = "starter", !.subscriptionStatus = "expired", !.isTrial = FALSE]
  ELSE co

convertTrialToPaid(co, t) ==
  IF ~co.present THEN co
  ELSE [co EXCEPT !.isTrial = FALSE, !.subscriptionStatus = "active",
                  !.subscriptionStartDate = N(t)]

\* POST /api/trials/start/:companyId
StartTrial(c) ==
  LET result == startTrial(subscriptionDB[c], now)
  IN /\ subscriptionDB[c].present
     /\ Len(trialResults) < MaxTrialCalls
     /\ subscriptionDB' = [subscriptionDB EXCEPT ![c] = result.company]
     /\ trialResults' = Append(trialResults,
                               [companyId |-> c, success |-> result.success,
                                message |-> result.message])
     /\ UNCHANGED <<now, dataVars, tasks, calls, lastSync, scoreVars, analysisVars,
                    scoreDB, requests>>

HandleTrialExpiration(c) ==
  /\ subscriptionDB' = [subscriptionDB EXCEPT ![c] = handleTrialExpiration(@, now)]
  /\ UNCHANGED <<now, dataVars, tasks, calls, lastSync, scoreVars, analysisVars,
                 scoreDB, requests, trialResults>>

\* POST /api/trials/convert/:companyId
ConvertTrialToPaid(c) ==
  /\ subscriptionDB' = [subscriptionDB EXCEPT ![c] = convertTrialToPaid(@, now)]
  /\ UNCHANGED <<now, dataVars, tasks, calls, lastSync, scoreVars, analysisVars,
                 scoreDB, requests, trialResults>>

\* A day passes.
TrialTick ==
  /\ now < MaxTrialTime
  /\ now' = now + 1
  /\ UNCHANGED <<routeVars, dataVars, tasks, calls, lastSync, scoreVars, analysisVars>>

\* The company as the admin route creates it on the Pro plan on day 0 (on
\* trial), on another plan, and after its plan was set to Pro later on.
TrialInputs ==
  {[NewSubscription EXCEPT !.plan = "pro", !.subscriptionStatus = "trial",
                           !.isTrial = TRUE, !.trialStartDate = N(0),
                           !.trialEndDate = N(14)],
   NewSubscription,
   [NewSubscription EXCEPT !.plan = "enterprise"],
   [NewSubscription EXCEPT !.plan = "pro"]}

InitTrial ==
  /\ now = 0
  /\ envDB = [k \in Keys |-> EnvCovered]
  /\ socDB = [k \in Keys |-> SocCovered]
  /\ govDB = [k \in Keys |-> GovCovered]
  /\ companyDB = [c \in Companies |-> [present |-> TRUE, employeeCount |-> N(150)]]
  /\ evidenceDB = <<>>
  /\ tasks = <<>>
  /\ calls = [i \in CallIds |-> IdleCall]
  /\ lastSync = "none"
  /\ scoreResult = NoResult
  /\ warnings = <<>>
  /\ companyDoc = NoCompany
  /\ readinessResult = NoResult
  /\ completenessResult = NoResult
  /\ edits = 0
  /\ scoreDB = <<>>
  /\ requests = [i \in CallIds |-> IdleRequest]
  /\ \E co \in TrialInputs :
       subscriptionDB = [c \in Companies |-> IF c = "c1" THEN co ELSE NewSubscription]
  /\ trialResults = <<>>

NextTrial ==
  \/ TrialTick
  \/ \E c \in Active : StartTrial(c)
  \/ \E c \in Active : HandleTrialExpiration(c)
  \/ \E c \in Active : ConvertTrialToPaid(c)

SpecTrial == InitTrial /\ [][NextTrial]_vars

(***************************************************************************)
(* Properties                                                              *)
(***************************************************************************)
OpenCount(ts, c) ==
  Cardinality({i \in 1..Len(ts) : ts[i].companyId = c /\ ts[i].status \in OpenStatuses})

OpenAuto(ts, i) ==
  ts[i].status \in OpenStatuses /\ ts[i].source \in AutoSources

\* Two open automatic tasks of one company share a sourceId.
DupOpenAuto(ts) ==
  \E i, j \in 1..Len(ts) :
    /\ i < j
    /\ OpenAuto(ts, i) /\ OpenAuto(ts, j)
    /\ ts[i].companyId = ts[j].companyId
    /\ ts[i].sourceId = ts[j].sourceId

\* The step is a whole syncTasks call for company c and period p in which
\* the lookups of the blocks in fail throw, and it is not a stuttering step.
IsSyncWith(c, p, fail) ==
  /\ now' = now /\ envDB' = envDB /\ evidenceDB' = evidenceDB
  /\ (tasks' # tasks \/ lastSync' # lastSync)
  /\ SyncTasks(c, p, fail)

\* The step is a whole syncTasks call for company c and period p.
IsSync(c, p) == IsSyncWith(c, p, {})

\* C1: calling syncTasks twice in succession over unchanged data leaves the
\* same number of open tasks after the second call as after the first, for
\* every backlog the first call may start from.
C1_SecondSyncKeepsOpenCount ==
  \A c \in Active, p \in Periods :
    LET once == syncedBacklog(tasks, envDB, socDB, govDB, evidenceDB, c, p, now, {})
        twice == syncedBacklog(once, envDB, socDB, govDB, evidenceDB, c, p, now, {})
    IN OpenCount(twice, c) = OpenCount(once, c)

\* C2: in a sequence of non-interleaved syncTasks calls, a task is inserted
\* only when no open automatic task of the company has its sourceId, and no
\* two open automatic tasks of a company ever share a sourceId.
C2_NoDuplicateOpenTasks ==
  [][\A c \in Active, p \in Periods :
       IsSync(c, p) =>
         /\ \A j \in (Len(tasks) + 1)..Len(tasks') :
              tasks'[j].sourceId \notin
                {tasks[i].sourceId : i \in {k \in 1..Len(tasks) :
                                              /\ tasks[k].companyId = c
                                              /\ OpenAuto(tasks, k)}}
         /\ ~DupOpenAuto(tasks')]_vars

\* A sync has run, time has moved on, and an open automatic task of c1 is
\* again among the candidates of the next sync.
C2_Witness ==
  /\ lastSync = "ok"
  /\ now > 0
  /\ \E i \in 1..Len(tasks) :
       /\ tasks[i].companyId = "c1"
       /\ tasks[i].status = "In Progress"
       /\ tasks[i].source \in AutoSources
       /\ \E k \in 1..Len(generateTasks(envDB, socDB, govDB, evidenceDB,
                                         "c1", "P1", now, {}).tasks) :
            generateTasks(envDB, socDB, govDB, evidenceDB,
                          "c1", "P1", now, {}).tasks[k].sourceId = tasks[i].sourceId

\* C3 as stated: a syncTasks call leaves every field of every manual task,
\* status included, as it was.
C3_ManualTasksUntouched ==
  [][\A c \in Active, p \in Periods :
       IsSync(c, p) =>
         \A i \in 1..Len(tasks) :
           tasks[i].source = "manual" => tasks'[i] = tasks[i]]_vars

\* C3 amended: a syncTasks call for company c changes a manual task only by
\* setting the status of an open manual task of c whose dueDate is before the
\* sweep time to Overdue; every other field and every other manual task is
\* as it was, and no manual task is added or removed.
C3_ManualTasksOnlySwept ==
  [][\A c \in Active, p \in Periods :
       IsSync(c, p) =>
         /\ Len(tasks') >= Len(tasks)
         /\ \A i \in 1..Len(tasks) :
              tasks[i].source = "manual" =>
                tasks'[i] = IF /\ tasks[i].companyId = c
                               /\ tasks[i].status \in OpenStatuses
                               /\ tasks[i].dueDate < now
                            THEN [tasks[i] EXCEPT !.status = "Overdue"]
                            ELSE tasks[i]
         /\ \A j \in (Len(tasks) + 1)..Len(tasks') : tasks'[j].source # "manual"]_vars

\* A manual task of c1 that a sync swept to Overdue next to an open manual
\* task of c2 that is past due and was left alone.
C3_Witness ==
  /\ lastSync = "ok"
  /\ \E i \in 1..Len(tasks) :
       /\ tasks[i].source = "manual"
       /\ tasks[i].companyId = "c1"
       /\ tasks[i].status = "Overdue"
  /\ \E i \in 1..Len(tasks) :
       /\ tasks[i].source = "manual"
       /\ tasks[i].companyId = "c2"
       /\ tasks[i].status \in OpenStatuses
       /\ tasks[i].dueDate < now

\* C4: the sweep at the end of syncTasks moves every open task of the
\* company whose dueDate is before the sweep time to Overdue, so no open task
\* of the company is past due right after it; Overdue and Completed tasks
\* are left as they were.
C4_OverdueSweep ==
  [][\A c \in Active, p \in Periods :
       IsSync(c, p) =>
         /\ \A i \in 1..Len(tasks') :
              (tasks'[i].companyId = c /\ tasks'[i].status \in OpenStatuses)
                => tasks'[i].dueDate >= now
         /\ \A i \in 1..Len(tasks) :
              /\ (tasks[i].companyId = c /\ tasks[i].status \in OpenStatuses
                  /\ tasks[i].dueDate < now)
                   => tasks'[i] = [tasks[i] EXCEPT !.status = "Overdue"]
              /\ tasks[i].status \in {"Overdue", "Completed"}
                   => tasks'[i] = tasks[i]]_vars

\* After a sync of c1: a task the sweep moved to Overdue while it was In
\* Progress or Pending, and a Completed task that was past due.
C4_Witness ==
  /\ lastSync = "ok"
  /\ \E i \in 1..Len(tasks) :
       tasks[i].companyId = "c1" /\ tasks[i].status = "Overdue"
  /\ \E i \in 1..Len(tasks) :
       /\ tasks[i].companyId = "c1"
       /\ tasks[i].status = "Completed"
       /\ tasks[i].dueDate < now

\* The candidates of the blocks that did not fail.
SurvivingCandidates(c, p, fail) ==
  (IF "compliance" \in fail THEN <<>>
   ELSE complianceTasks(envDB, socDB, govDB, evidenceDB, c, p, now))
  \o (IF "expiring-document" \in fail THEN <<>> ELSE expiringTasks(evidenceDB, c, now))
  \o (IF "missing-data" \in fail THEN <<>>
      ELSE missingDataTasks(envDB, socDB, govDB, c, p, now))

\* C5: when some sub-generators of generateTasks fail, the call still returns
\* without error, every candidate of the other sub-generators that has no open
\* task yet is inserted, and the overdue sweep has run.
C5_FailureIsolated ==
  [][\A c \in Active, p \in Periods, fail \in SUBSET Blocks :
       IsSyncWith(c, p, fail) =>
         /\ lastSync' = "ok"
         /\ LET cands == SurvivingCandidates(c, p, fail)
            IN \A k \in 1..Len(cands) :
                 (\A i \in 1..Len(tasks) :
                    ~(tasks[i].companyId = c /\ OpenAuto(tasks, i)
                      /\ tasks[i].sourceId = cands[k].sourceId))
                 => \E j \in (Len(tasks) + 1)..Len(tasks') :
                      /\ tasks'[j].companyId = c
                      /\ tasks'[j].sourceId = cands[k].sourceId
                      /\ tasks'[j].title = cands[k].title
                      /\ tasks'[j].dueDate = cands[k].dueDate
         /\ \A i \in 1..Len(tasks') :
              (tasks'[i].companyId = c /\ tasks'[i].status \in OpenStatuses)
                => tasks'[i].dueDate >= now]_vars

\* c1 has a missing-data task but no compliance task: the readiness lookup
\* failed in the sync that found the water figure missing, and the
\* missing-data block still delivered.  One of its tasks has been swept.
C5_Witness ==
  /\ lastSync = "ok"
  /\ \E i \in 1..Len(tasks) :
       tasks[i].companyId = "c1" /\ tasks[i].source = "missing-data"
  /\ \A i \in 1..Len(tasks) :
       tasks[i].companyId = "c1" => tasks[i].source # "compliance"
  /\ \E i \in 1..Len(tasks) :
       tasks[i].companyId = "c1" /\ tasks[i].status = "Overdue"

\* C6: two overlapping syncTasks calls can leave two open automatic tasks with
\* one sourceId; such a pair only ever comes from an insert by a call whose
\* lookup of the open tasks is stale, that is, another call inserted the
\* sourceId between this call's lookup and its insert.
C6_DuplicateOnlyFromStaleLookup ==
  [][(DupOpenAuto(tasks') /\ ~DupOpenAuto(tasks)) =>
       \E i \in CallIds :
         /\ calls[i].pc = "create"
         /\ calls[i].newTasks # <<>>
         /\ tasks' = Append(tasks, createTask(Head(calls[i].newTasks), calls[i].companyId))
         /\ Head(calls[i].newTasks).sourceId \notin calls[i].existing
         /\ \E k \in 1..Len(tasks) :
              /\ tasks[k].companyId = calls[i].companyId
              /\ OpenAuto(tasks, k)
              /\ tasks[k].sourceId = Head(calls[i].newTasks).sourceId]_vars

\* Two open automatic tasks of one company with one sourceId.
C6_Witness == DupOpenAuto(tasks)

ScoreFields == {"environmentalScore", "socialScore", "governanceScore", "overallScore"}

\* C7: with the company present and a snapshot absent, calculateESGScore
\* fails with the missing-metrics error naming exactly the absent pillars,
\* and returns no score.
C7_MissingMetricsError ==
  [][\A c \in Companies, p \in Periods :
       (/\ CalculateScore(c, p)
        /\ companyDB[c].present
        /\ ~(envDB[<<c, p>>].present /\ socDB[<<c, p>>].present /\ govDB[<<c, p>>].present))
       => /\ scoreResult'.kind = "error"
          /\ scoreResult'.error = "MissingMetrics"
          /\ {scoreResult'.missing[i] : i \in 1..Len(scoreResult'.missing)}
               = {x \in {"Environmental", "Social", "Governance"} :
                    \/ x = "Environmental" /\ ~envDB[<<c, p>>].present
                    \/ x = "Social" /\ ~socDB[<<c, p>>].present
                    \/ x = "Governance" /\ ~govDB[<<c, p>>].present}
          /\ Len(scoreResult'.missing) = Cardinality({scoreResult'.missing[i] :
                                                       i \in 1..Len(scoreResult'.missing)})
          /\ DOMAIN scoreResult' \cap ScoreFields = {}]_vars

\* The call failed because exactly the governance snapshot is absent.
C7_Witness ==
  /\ scoreResult.kind = "error"
  /\ scoreResult.error = "MissingMetrics"
  /\ scoreResult.missing = <<"Governance">>

\* C8: every score that calculateESGScore returns lies in [0,100] (scores are
\* in tenths).
C8_ScoresInRange ==
  scoreResult.kind = "scores" =>
    /\ scoreResult.environmentalScore \in 0..1000
    /\ scoreResult.socialScore \in 0..1000
    /\ scoreResult.governanceScore \in 0..1000
    /\ scoreResult.overallScore \in 0..1000

\* Scores from an out-of-range renewable percentage and an invalid employee
\* count, with a pillar at the upper end of the range.
C8_Witness ==
  /\ scoreResult.kind = "scores"
  /\ envDB[ScoredKey].renewableEnergyPercent = N(1500)
  /\ companyDB["c1"].employeeCount = N(0 - 5)
  /\ scoreResult.governanceScore = 1000

\* round(0.4 E + 0.3 S + 0.3 G, 1) in tenths, from pillar scores in tenths.
OverallFromRounded(r) ==
  (4 * (10 * r.environmentalScore) + 3 * (10 * r.socialScore)
   + 3 * (10 * r.governanceScore) + 50) \div 100

\* C9 as stated: the returned overall score is round(0.4 E + 0.3 S + 0.3 G, 1)
\* of the rounded pillar scores returned with it.
C9_OverallFromRoundedPillars ==
  scoreResult.kind = "scores" => scoreResult.overallScore = OverallFromRounded(scoreResult)

\* C9 amended: the returned overall score is round(0.4 E + 0.3 S + 0.3 G, 1)
\* of the pillar scores before they are rounded; it equals the value computed
\* from the rounded pillar scores whenever the unrounded pillar scores have
\* at most one decimal, and is never more than 0.1 away from it.
C9_OverallFromUnroundedPillars ==
  scoreResult.kind = "scores" =>
    LET e == calculateEnvironmentalScore(envDB[ScoredKey], companyDB["c1"]).v
        s == calculateSocialScore(socDB[ScoredKey]).v
        g == calculateGovernanceScore(govDB[ScoredKey]).v
        d == scoreResult.overallScore - OverallFromRounded(scoreResult)
    IN /\ scoreResult.overallScore = (4 * e + 3 * s + 3 * g + 50) \div 100
       /\ (e % 10 = 0 /\ s % 10 = 0 /\ g % 10 = 0) => d = 0
       /\ d \in {0 - 1, 0, 1}

\* Scores from a fractional renewable percentage where the overall score is
\* not the one the rounded pillar scores give.
C9_Witness ==
  /\ scoreResult.kind = "scores"
  /\ envDB[ScoredKey].renewableEnergyPercent = N(338)
  /\ scoreResult.overallScore # OverallFromRounded(scoreResult)

\* employeeCount is absent, zero, negative or non-numeric.
InvalidEmployeeCount(company) ==
  \/ company.employeeCount.k \in {"abs", "str"}
  \/ company.employeeCount.k = "num" /\ company.employeeCount.v <= 0

\* C10: with an invalid employeeCount the calculation does not fail: it warns
\* and returns the scores that a company of 100 employees gets.
C10_FallbackEmployeeCount ==
  [][\A c \in Companies, p \in Periods :
       (/\ CalculateScore(c, p)
        /\ companyDB[c].present
        /\ envDB[<<c, p>>].present /\ socDB[<<c, p>>].present /\ govDB[<<c, p>>].present
        /\ InvalidEmployeeCount(companyDB[c]))
       => /\ scoreResult'.kind = "scores"
          /\ Len(warnings') = 1
          /\ LET hundred == [present |-> TRUE, employeeCount |-> N(100)]
                 e == calculateEnvironmentalScore(envDB[<<c, p>>], hundred).v
                 s == calculateSocialScore(socDB[<<c, p>>]).v
                 g == calculateGovernanceScore(govDB[<<c, p>>]).v
             IN /\ scoreResult'.environmentalScore = (e + 5) \div 10
                /\ scoreResult'.overallScore = (4 * e + 3 * s + 3 * g + 50) \div 100]_vars

\* Scores returned with a warning for a company without a usable employee
\* count whose electricity figure falls in the middle band per 100 employees.
C10_Witness ==
  /\ scoreResult.kind = "scores"
  /\ Len(warnings) = 1
  /\ companyDB["c1"].employeeCount = Str
  /\ envDB[ScoredKey].electricityUsageKwh = N(45000)

\* C11: score calculation is free of side effects: the company profile handed
\* to it has the same employeeCount after the call as before it, for every
\* input, an invalid employeeCount included.
C11_CompanyProfileUnchanged ==
  [][\A c \in Companies, p \in Periods :
       CalculateScore(c, p) => companyDoc' = companyDB[c]]_vars

\* The requirements of the catalog that are uncovered for (c, p), by index.
UncoveredOf(c, p) ==
  {i \in 1..Len(BRSR_REQUIREMENTS) :
     ~isRequirementCovered(BRSR_REQUIREMENTS[i].id, envDB[<<c, p>>], socDB[<<c, p>>],
                           govDB[<<c, p>>], EvidenceOf(evidenceDB, c))}

\* Mandatory requirements rank first, then client-driven, then future-ready.
RankOf(i) ==
  IF BRSR_REQUIREMENTS[i].mandatory THEN 0
  ELSE IF BRSR_REQUIREMENTS[i].category = "client-driven" THEN 1
  ELSE 2

\* The place of requirement i among the uncovered requirements U: by rank,
\* and by catalog order within a rank.
PlaceOf(i, U) ==
  1 + Cardinality({j \in U : RankOf(j) < RankOf(i) \/ (RankOf(j) = RankOf(i) /\ j < i)})

\* C12: the next steps are the first five uncovered requirements in the
\* ranking mandatory, client-driven, future-ready with catalog order inside a
\* rank; each carries the lookup text of its id as action, and an id without
\* lookup text gets "Complete " followed by the requirement text.
C12_NextStepsRanking ==
  [][\A c \in Companies, p \in Periods :
       CalculateReadiness(c, p) =>
         LET U == UncoveredOf(c, p)
             ns == readinessResult'.nextSteps
         IN /\ Len(ns) = IF Cardinality(U) < 5 THEN Cardinality(U) ELSE 5
            /\ \A i \in U :
                 PlaceOf(i, U) <= 5 =>
                   LET step == ns[PlaceOf(i, U)]
                       req == BRSR_REQUIREMENTS[i]
                   IN /\ step.requirement = req.requirement
                      /\ step.area = req.area
                      /\ step.action = getActionForRequirement(req)
                      /\ Len(step.action) = 1
                      /\ step.priority = CASE RankOf(i) = 0 -> "high"
                                           [] RankOf(i) = 1 -> "medium"
                                           [] OTHER -> "low"
            /\ getActionForRequirement(Req("E9", "Environmental", "Noise data",
                                           FALSE, "future-ready"))
                 = <<"Complete ", "Noise data">>]_vars

\* A result with five next steps out of more than five uncovered
\* requirements, in which a client-driven Social requirement comes before
\* the future-ready Environmental one that precedes it in the catalog.
C12_Witness ==
  /\ readinessResult.kind = "readiness"
  /\ readinessResult.companyId = "c1"
  /\ Cardinality(UncoveredOf("c1", "P1")) > 5
  /\ Len(readinessResult.nextSteps) = 5
  /\ \E k, l \in 1..5 :
       /\ k < l
       /\ readinessResult.nextSteps[k].area = "Social"
       /\ readinessResult.nextSteps[k].priority = "medium"
       /\ readinessResult.nextSteps[l].area = "Environmental"
       /\ readinessResult.nextSteps[l].priority = "low"

\* The number of covered flags in a pillar's requirement list.
FlagsTrue(b) ==
  Cardinality({i \in 1..Len(b.requirements) : b.requirements[i].covered})

\* The covered counts of the three pillars, added up.
CoveredSum(r) == r.breakdown[1].covered + r.breakdown[2].covered + r.breakdown[3].covered

\* C13: in every readiness result each pillar's covered count is the number
\* of true flags in its requirement list, covered + missing = total, the
\* totals are 8, 6 and 7, and overallReadiness is the whole number nearest to
\* 100 * (covered over all pillars) / 21.
C13_ReadinessConsistent ==
  readinessResult.kind = "readiness" =>
    LET r == readinessResult
    IN /\ \A a \in 1..3 :
            /\ r.breakdown[a].covered = FlagsTrue(r.breakdown[a])
            /\ r.breakdown[a].covered + r.breakdown[a].missing = r.breakdown[a].total
            /\ r.breakdown[a].total = Len(r.breakdown[a].requirements)
            /\ \A i \in 1..Len(r.breakdown[a].requirements) :
                 /\ r.breakdown[a].requirements[i].id \in
                      {BRSR_REQUIREMENTS[j].id : j \in {k \in 1..21 :
                         BRSR_REQUIREMENTS[k].area = r.breakdown[a].area}}
                 /\ r.breakdown[a].requirements[i].covered =
                      isRequirementCovered(r.breakdown[a].requirements[i].id,
                                           envDB[<<r.companyId, "P1">>],
                                           socDB[<<r.companyId, "P1">>],
                                           govDB[<<r.companyId, "P1">>],
                                           EvidenceOf(evidenceDB, r.companyId))
       /\ <<r.breakdown[1].area, r.breakdown[2].area, r.breakdown[3].area>>
            = <<"Environmental", "Social", "Governance">>
       /\ <<r.breakdown[1].total, r.breakdown[2].total, r.breakdown[3].total>> = <<8, 6, 7>>
       /\ r.overallReadiness \in 0..100
       /\ 2 * (100 * CoveredSum(r) - 21 * r.overallReadiness) <= 21
       /\ 2 * (21 * r.overallReadiness - 100 * CoveredSum(r)) <= 21

\* A result with 13 of 21 requirements covered, unevenly over the pillars:
\* 61.9 percent, reported as 62.
C13_Witness ==
  /\ readinessResult.kind = "readiness"
  /\ CoveredSum(readinessResult) = 13
  /\ readinessResult.breakdown[1].covered = 4
  /\ readinessResult.breakdown[2].covered = 3
  /\ readinessResult.overallReadiness = 62

\* C14: a pillar is complete exactly when covered = total, in warning exactly
\* when covered < total and covered is at least 70% of total, and critical
\* otherwise; 15 covered requirements of 21 give an overall readiness of 71.
C14_PillarStatus ==
  readinessResult.kind = "readiness" =>
    /\ \A a \in 1..3 :
         LET b == readinessResult.breakdown[a]
         IN /\ b.status \in {"complete", "warning", "critical"}
            /\ b.status = "complete" <=> b.covered = b.total
            /\ b.status = "warning" <=>
                 (b.covered < b.total /\ 100 * b.covered >= 70 * b.total)
    /\ CoveredSum(readinessResult) = 15 => readinessResult.overallReadiness = 71

\* 15 of 21 covered, reported as 71: the Environmental pillar with 5 of 8
\* (62.5%) is critical and another pillar is in warning.
C14_Witness ==
  /\ readinessResult.kind = "readiness"
  /\ CoveredSum(readinessResult) = 15
  /\ readinessResult.overallReadiness = 71
  /\ readinessResult.breakdown[1].covered = 5
  /\ readinessResult.breakdown[1].status = "critical"
  /\ \E a \in 2..3 : readinessResult.breakdown[a].status = "warning"


\* ------------------------------------------------------------------------
\* The fields of the three snapshots that govern each requirement, and the
\* evidence keywords that do.
GoverningFields(id) ==
  CASE id = "E1" -> {"electricityKwh", "electricityUsageKwh", "totalEnergyConsumption"}
    [] id = "E2" -> {"waterUsageKL"}
    [] id = "E3" -> {"totalWasteTonnes", "wasteGeneratedKg"}
    [] id = "E4" -> {"scope1Emissions", "carbonEmissionsTons"}
    [] id = "E5" -> {"renewableEnergyPercent"}
    [] id = "E6" -> {"environmentalPolicyExists"}
    [] id = "E8" -> {"scope1Emissions", "scope2Emissions"}
    [] id = "S1" -> {"totalEmployeesPermanent", "totalEmployees",
                     "totalEmployeesContractual"}
    [] id = "S2" -> {"femalePercentWorkforce", "femaleEmployees"}
    [] id = "S3" -> {"totalTrainingHoursPerEmployee", "avgTrainingHours"}
    [] id = "S4" -> {"accidentIncidents"}
    [] id = "S5" -> {"csrSpend"}
    [] id = "S6" -> {"healthSafetyPolicies"}
    [] id = "G1" -> {"boardMembers"}
    [] id = "G2" -> {"independentDirectors"}
    [] id = "G3" -> {"complianceViolations"}
    [] id = "G4" -> {"antiCorruptionPolicy"}
    [] id = "G5" -> {"whistleblowerPolicyExists"}
    [] id = "G6" -> {"codeOfConductExists"}
    [] id = "G7" -> {"esgCommitteeExists"}
    [] OTHER -> {}

GoverningKeywords(id) ==
  CASE id = "E7" -> {KwWaste, KwDisposal}
    [] id = "G5" -> {KwPosh}
    [] OTHER -> {}

PillarOf(id) ==
  IF id \in {"E1", "E2", "E3", "E4", "E5", "E6", "E7", "E8"} THEN "env"
  ELSE IF id \in {"S1", "S2", "S3", "S4", "S5", "S6"} THEN "soc" ELSE "gov"

RequirementIds == {BRSR_REQUIREMENTS[i].id : i \in 1..Len(BRSR_REQUIREMENTS)}

\* The snapshot of the requirement's pillar in the given collections.
SnapshotOf(id, edb, sdb, gdb) ==
  CASE PillarOf(id) = "env" -> edb[ScoredKey]
    [] PillarOf(id) = "soc" -> sdb[ScoredKey]
    [] OTHER -> gdb[ScoredKey]

\* The requirement's governing data are there: its field is truthy (set at
\* all, for the two requirements tested for presence; both fields, for the
\* carbon footprint), or some evidence record matches one of its keywords.
GoverningSatisfied(id, edb, sdb, gdb, ev) ==
  LET doc == SnapshotOf(id, edb, sdb, gdb)
      F == GoverningFields(id)
  IN \/ id \in {"S4", "G3"} /\ \A f \in F : Defined(doc[f])
     \/ id = "E8" /\ \A f \in F : Truthy(doc[f])
     \/ id \notin {"S4", "G3", "E8"} /\ \E f \in F : Truthy(doc[f])
     \/ \E kw \in GoverningKeywords(id) : SomeEvidence(EvidenceOf(ev, "c1"), kw)

CoveredNow(id, edb, sdb, gdb, ev) ==
  isRequirementCovered(id, edb[ScoredKey], sdb[ScoredKey], gdb[ScoredKey],
                       EvidenceOf(ev, "c1"))

\* Nothing that governs the requirement differs between the two states.
GoverningUntouched(id) ==
  /\ \A f \in GoverningFields(id) :
       SnapshotOf(id, envDB, socDB, govDB)[f] = SnapshotOf(id, envDB', socDB', govDB')[f]
  /\ \A kw \in GoverningKeywords(id) :
       SomeEvidence(EvidenceOf(evidenceDB, "c1"), kw)
         = SomeEvidence(EvidenceOf(evidenceDB', "c1"), kw)

\* C15: every requirement of the catalog is covered once its governing field
\* is truthy (present, for safety incidents and compliance violations; both
\* scopes, for the carbon footprint) or an evidence record matches its
\* keyword, and a covered requirement stays covered over every change that
\* leaves its governing fields and its matching evidence as they were.
C15_CoverageFollowsGoverningData ==
  [][\A id \in RequirementIds :
       /\ GoverningSatisfied(id, envDB', socDB', govDB', evidenceDB')
            => CoveredNow(id, envDB', socDB', govDB', evidenceDB')
       /\ (CoveredNow(id, envDB, socDB, govDB, evidenceDB) /\ GoverningUntouched(id))
            => CoveredNow(id, envDB', socDB', govDB', evidenceDB')]_vars

\* An edit gave the fresh snapshot its legacy electricity field alone, and
\* the energy requirement is covered.
C15_Witness ==
  /\ edits = MaxEdits
  /\ ~Truthy(envDB[ScoredKey].electricityKwh)
  /\ ~Truthy(envDB[ScoredKey].totalEnergyConsumption)
  /\ Truthy(envDB[ScoredKey].electricityUsageKwh)
  /\ CoveredNow("E1", envDB, socDB, govDB, evidenceDB)


\* ------------------------------------------------------------------------
Pillars == {"env", "soc", "gov"}

RequiredFieldsOf(pillar) ==
  CASE pillar = "env" -> envRequiredFields
    [] pillar = "soc" -> socialRequiredFields
    [] OTHER -> govRequiredFields

CompletenessOfPillar(pillar, doc) ==
  CASE pillar = "env" -> getEnvironmentalCompleteness(doc)
    [] pillar = "soc" -> getSocialCompleteness(doc)
    [] OTHER -> getGovernanceCompleteness(doc)

DocOfPillar(pillar, edb, sdb, gdb) ==
  CASE pillar = "env" -> edb[ScoredKey]
    [] pillar = "soc" -> sdb[ScoredKey]
    [] OTHER -> gdb[ScoredKey]

InSeq(x, s) == \E i \in 1..Len(s) : s[i] = x

\* Where a result lists a label.
ClassOf(res, label) ==
  <<InSeq(label, res.completed), InSeq(label, res.missing),
    InSeq(label, res.missingCritical)>>

\* The step gives a value to field f of the snapshot and changes nothing
\* else of it.
GivenValue(old, new, f) ==
  /\ new[f.key].k \in {"num", "bool", "str"}
  /\ new = [old EXCEPT ![f.key] = new[f.key]]

\* C16: for each pillar's completeness function, when a critical field that
\* was listed in missingCritical is given a value, the percentage does not
\* decrease, the field's label leaves missingCritical, and every other field
\* of the pillar is classified as before.
C16_CompletenessMonotonic ==
  [][\A pillar \in Pillars :
       LET old == DocOfPillar(pillar, envDB, socDB, govDB)
           new == DocOfPillar(pillar, envDB', socDB', govDB')
           before == CompletenessOfPillar(pillar, old)
           after == CompletenessOfPillar(pillar, new)
           fields == RequiredFieldsOf(pillar)
       IN \A i \in 1..Len(fields) :
            (/\ fields[i].critical
             /\ InSeq(fields[i].label, before.missingCritical)
             /\ GivenValue(old, new, fields[i]))
            => /\ after.completeness >= before.completeness
               /\ ~InSeq(fields[i].label, after.missingCritical)
               /\ \A j \in 1..Len(fields) :
                    j # i => ClassOf(after, fields[j].label) = ClassOf(before, fields[j].label)]_vars

\* The fresh environmental snapshot was given a water usage of zero, and
\* the scorecard computed after the edit no longer lists the field as a
\* missing critical one.
C16_Witness ==
  /\ edits = MaxEdits
  /\ envDB[ScoredKey] = [NewEnv EXCEPT !.waterUsageKL = N(0)]
  /\ completenessResult.kind = "completeness"
  /\ completenessResult.environmental = getEnvironmentalCompleteness(envDB[ScoredKey])
  /\ ~InSeq("Water Usage (KL)", completenessResult.environmental.missingCritical)
  /\ completenessResult.environmental.completeness = 13


\* ------------------------------------------------------------------------
\* The water, waste, renewable and carbon adjustments of the scored
\* snapshot, in hundredths.
OtherEnvAdjustments ==
  LET m == envDB[ScoredKey]
      ec == validatedEmployeeCount(companyDB["c1"]).v
  IN wasteBand(NumberOr0(m.wasteGeneratedKg), ec)
     + waterBand(NumberOr0(m.waterUsageKL), ec)
     + renewableTerm(NumberOr0(m.renewableEnergyPercent))
     + carbonBand(NumberOr0(m.carbonEmissionsTons), ec)

\* The environmental score returned when the energy band contributes adj.
EnvScoreWithEnergy(adj) ==
  Round1FromHundredths(Clamp(10000 + adj + OtherEnvAdjustments))

\* Scores were returned for a company of 150 employees and the given
\* electricity usage.
ScoredWithElectricity(kwh) ==
  /\ scoreResult.kind = "scores"
  /\ companyDB["c1"].employeeCount = N(150)
  /\ envDB[ScoredKey].electricityUsageKwh = N(kwh)

\* C17 as stated: with 150 employees and 45000 kWh (exactly 300 kWh per
\* employee) the energy band takes 8 points off the baseline of 100 before
\* the other adjustments.
C17_PenaltyAtThreeHundred ==
  ScoredWithElectricity(45000) => scoreResult.environmentalScore = EnvScoreWithEnergy(0 - 800)

\* C17 amended: at exactly 300 kWh per employee (150 employees, 45000 kWh) the
\* energy band leaves the baseline of 100 as it is; the penalty of 8 is
\* applied only above 300 kWh per employee (150 employees, 45150 kWh).
C17_PenaltyOnlyAboveThreeHundred ==
  /\ ScoredWithElectricity(45000) => scoreResult.environmentalScore = EnvScoreWithEnergy(0)
  /\ ScoredWithElectricity(45150)
       => scoreResult.environmentalScore = EnvScoreWithEnergy(0 - 800)

\* Scores at exactly 300 kWh per employee with no other adjustment: the
\* environmental score is the baseline.
C17_Witness ==
  /\ ScoredWithElectricity(45000)
  /\ OtherEnvAdjustments = 0
  /\ scoreResult.environmentalScore = 1000


\* ------------------------------------------------------------------------
\* The gap a candidate stands for: the evidence record of an expiring
\* document, and otherwise the requirement or field its title names.
GapOf(cand) ==
  IF cand.source = "expiring-document" THEN <<cand.source, cand.sourceId>>
  ELSE <<cand.source, cand.title>>

\* The candidates generateTasks derives from the given data.
CandidatesFrom(edb, sdb, gdb, ev, c, p, t) ==
  generateTasks(edb, sdb, gdb, ev, c, p, t, {}).tasks

\* C18 as stated: the candidates derived before and after any change carry
\* the same sourceId exactly when they stand for the same gap.
C18_SourceIdIsStableKey ==
  [][\A c \in Active, p \in Periods :
       LET before == CandidatesFrom(envDB, socDB, govDB, evidenceDB, c, p, now)
           after == CandidatesFrom(envDB', socDB', govDB', evidenceDB', c, p, now')
       IN \A i \in 1..Len(before), j \in 1..Len(after) :
            (before[i].sourceId = after[j].sourceId) <=> (GapOf(before[i]) = GapOf(after[j]))]_vars


\* ------------------------------------------------------------------------
\* The candidate list generateTasks has just returned to call A.
Returned == calls["A"].newTasks

JustGenerated == calls["A"].pc = "find"

PriorityOfStep(step) ==
  IF step.priority = "high" THEN "High"
  ELSE IF step.priority = "medium" THEN "Medium" ELSE "Low"

DueOffset(priority) ==
  IF priority = "High" THEN 1 ELSE IF priority = "Medium" THEN 3 ELSE 7

\* cand is the compliance task of a next step of the readiness result.
IsComplianceTask(cand) ==
  /\ cand.source = "compliance"
  /\ cand.relatedTo = "Compliance"
  /\ \E step \in {calculateBRSRReadiness(envDB, socDB, govDB, evidenceDB,
                                         "c1", "P1").nextSteps[k] :
                    k \in 1..Len(calculateBRSRReadiness(envDB, socDB, govDB, evidenceDB,
                                                        "c1", "P1").nextSteps)} :
       /\ cand.title = step.action
       /\ cand.esgArea = step.area
       /\ cand.priority = PriorityOfStep(step)
  /\ cand.dueDate = now + DueOffset(cand.priority)

\* The evidence records of c1 that expire between now and now + 30 days.
ExpiringSoon ==
  {k \in 1..Len(evidenceDB) :
     /\ evidenceDB[k].companyId = "c1"
     /\ evidenceDB[k].expiryDate.k = "num"
     /\ evidenceDB[k].expiryDate.v >= now
     /\ evidenceDB[k].expiryDate.v <= now + 30}

IsExpiringDocumentTask(cand) ==
  /\ cand.source = "expiring-document"
  /\ cand.priority = "High"
  /\ \E k \in ExpiringSoon :
       /\ cand.sourceId = <<"oid", evidenceDB[k].id>>
       /\ cand.dueDate = evidenceDB[k].expiryDate.v

\* The four checked fields: sourceId, whether the field is missing, offset.
MissingDataChecks ==
  {<<"env-electricity", ~Truthy(envDB[ScoredKey].electricityKwh)
                         /\ ~Truthy(envDB[ScoredKey].electricityUsageKwh), 3>>,
   <<"env-water", ~Truthy(envDB[ScoredKey].waterUsageKL), 3>>,
   <<"social-employees", ~Truthy(socDB[ScoredKey].totalEmployeesPermanent)
                          /\ ~Truthy(socDB[ScoredKey].totalEmployees), 7>>,
   <<"gov-board", ~Truthy(govDB[ScoredKey].boardMembers), 5>>}

IsMissingDataTask(cand) ==
  /\ cand.source = "missing-data"
  /\ cand.priority = "High"
  /\ \E chk \in MissingDataChecks :
       /\ cand.sourceId = <<chk[1]>>
       /\ chk[2]
       /\ cand.dueDate = now + chk[3]

\* C19: every candidate generateTasks returns is a compliance task of a
\* readiness next step, due 1, 3 or 7 days after now for High, Medium or Low;
\* or an expiring-document task of an evidence record expiring between now
\* and now + 30 days, High and due at the expiry; or a High missing-data task
\* for missing electricity (+3), water (+3), employee count (+7) or board
\* members (+5).  Each next step, each such evidence record and each missing
\* field has its candidate, and every candidate is Pending.
C19_CandidateKinds ==
  JustGenerated =>
    /\ \A i \in 1..Len(Returned) :
         /\ Returned[i].status = "Pending"
         /\ \/ IsComplianceTask(Returned[i])
            \/ IsExpiringDocumentTask(Returned[i])
            \/ IsMissingDataTask(Returned[i])
    /\ Cardinality({i \in 1..Len(Returned) : Returned[i].source = "compliance"})
         = Len(calculateBRSRReadiness(envDB, socDB, govDB, evidenceDB, "c1", "P1").nextSteps)
    /\ \A k \in ExpiringSoon :
         \E i \in 1..Len(Returned) : Returned[i].sourceId = <<"oid", evidenceDB[k].id>>
    /\ \A chk \in MissingDataChecks :
         chk[2] => \E i \in 1..Len(Returned) : Returned[i].sourceId = <<chk[1]>>

\* A returned list with a Low compliance task due in 7 days, a task for a
\* document expiring on the last day of the window, and no missing-data task.
C19_Witness ==
  /\ JustGenerated
  /\ now = 1
  /\ \E i \in 1..Len(Returned) :
       /\ Returned[i].source = "compliance"
       /\ Returned[i].priority = "Low"
       /\ Returned[i].dueDate = 8
  /\ \E i \in 1..Len(Returned) :
       Returned[i].source = "expiring-document" /\ Returned[i].dueDate = 31
  /\ \A i \in 1..Len(Returned) : Returned[i].source # "missing-data"


\* ------------------------------------------------------------------------
\* The requirements whose metric the snapshot schemas hold under a current
\* and a legacy name: requirement, pillar snapshot, current name, legacy name.
NamePairs ==
  {<<"E1", "env", "electricityKwh", "electricityUsageKwh">>,
   <<"E3", "env", "totalWasteTonnes", "wasteGeneratedKg">>,
   <<"E4", "env", "scope1Emissions", "carbonEmissionsTons">>,
   <<"S1", "soc", "totalEmployeesPermanent", "totalEmployees">>,
   <<"S2", "soc", "femalePercentWorkforce", "femaleEmployees">>,
   <<"S3", "soc", "totalTrainingHoursPerEmployee", "avgTrainingHours">>,
   <<"S4", "soc", "accidentIncidents", "workplaceIncidents">>}

\* The value is there: any recorded count for the safety incidents, a
\* non-zero figure for the others.
ValuePresent(id, x) == IF id = "S4" THEN Defined(x) ELSE Truthy(x)

\* C20 as stated: a requirement whose metric has a current and a legacy
\* field name is covered when the value is present under either name alone,
\* and waste disposal proof and POSH policy are covered by a case-insensitive
\* keyword match on the evidenceType of some evidence record.
C20_EitherFieldNameCovers ==
  /\ \A pr \in NamePairs :
       LET doc == DocOfPillar(pr[2], envDB, socDB, govDB)
       IN (ValuePresent(pr[1], doc[pr[3]]) \/ ValuePresent(pr[1], doc[pr[4]]))
            => CoveredNow(pr[1], envDB, socDB, govDB, evidenceDB)
  /\ \A k \in 1..Len(evidenceDB) :
       evidenceDB[k].companyId = "c1" =>
         /\ (includes(toLowerCase(evidenceDB[k].evidenceType), KwWaste)
             \/ includes(toLowerCase(evidenceDB[k].evidenceType), KwDisposal))
              => CoveredNow("E7", envDB, socDB, govDB, evidenceDB)
         /\ includes(toLowerCase(evidenceDB[k].evidenceType), KwPosh)
              => CoveredNow("G5", envDB, socDB, govDB, evidenceDB)


\* ------------------------------------------------------------------------
\* The value of a metric kept under a new and a legacy name when the new
\* name wins whenever it is present.
PreferNew(new, legacy) == IF NotNullish(new) THEN new ELSE legacy

\* The social score, in tenths, when every metric is read that way.
SocialScorePreferringNew(m) ==
  Round1FromHundredths(
    Clamp(5000
          + diversityPoints(femalePercentage(m))
          + trainingPoints(NumberOr0(PreferNew(m.totalTrainingHoursPerEmployee,
                                               m.avgTrainingHours)))
          + safetyPoints(NumberOr0(PreferNew(m.accidentIncidents, m.workplaceIncidents)),
                         NumberOr0(PreferNew(m.totalEmployeesPermanent, m.totalEmployees)))
          + retentionPoints(NumberOr0(m.employeeTurnoverPercent))))

\* C21 as stated: the social score uses the value under the new field name
\* whenever it is present, a zero included, and the legacy field only when
\* the new one is absent.
C21_NewFieldWins ==
  scoreResult.kind = "scores"
    => scoreResult.socialScore = SocialScorePreferringNew(socDB[ScoredKey])


\* ------------------------------------------------------------------------
\* A denominator that is zero, absent or non-numeric.
BadDenominator(x) == ~Truthy(x) \/ isNaN(Number(x))

\* The employee total of the incident rate is unusable.
NoEmployeeTotal(m) ==
  BadDenominator(m.totalEmployeesPermanent) /\ BadDenominator(m.totalEmployees)

\* The female percentage has to be derived and has no usable denominator.
NoDerivedFemalePercentage(m) ==
  ~NotNullish(m.femalePercentWorkforce) /\ NoEmployeeTotal(m)

\* Scores of the scored pair were returned.
Scored == scoreResult.kind = "scores"

\* The parts of C22 that do not concern the employee count: the safety,
\* diversity and independence adjustments are skipped on an unusable
\* denominator, and the only errors are the company and missing-metrics
\* ones, the latter exactly when a snapshot is missing.
DenominatorsGuarded ==
  LET m == socDB[ScoredKey]
      g == govDB[ScoredKey]
  IN /\ (Scored /\ NoEmployeeTotal(m)) =>
          scoreResult.socialScore =
            Round1FromHundredths(
              Clamp(5000 + diversityPoints(femalePercentage(m))
                    + trainingPoints(NumberOr0(Or(m.totalTrainingHoursPerEmployee,
                                                  m.avgTrainingHours)))
                    + retentionPoints(NumberOr0(m.employeeTurnoverPercent))))
     /\ (Scored /\ NoDerivedFemalePercentage(m)) =>
          scoreResult.socialScore =
            Round1FromHundredths(
              Clamp(5000
                    + trainingPoints(NumberOr0(Or(m.totalTrainingHoursPerEmployee,
                                                  m.avgTrainingHours)))
                    + retentionPoints(NumberOr0(m.employeeTurnoverPercent))))
     /\ (Scored /\ BadDenominator(g.boardMembers)) =>
          scoreResult.governanceScore =
            Round1FromHundredths(
              Clamp(5000 + (IF IsTrue(g.antiCorruptionPolicy) THEN 2000 ELSE 0)
                    + (IF IsTrue(g.dataPrivacyPolicy) THEN 2000 ELSE 0)
                    + violationPoints(NumberOr0(g.complianceViolations))))
     /\ scoreResult.kind = "error" =>
          /\ scoreResult.error \in {"CompanyNotFound", "MissingMetrics"}
          /\ scoreResult.error = "MissingMetrics" =>
               (~envDB[ScoredKey].present \/ ~socDB[ScoredKey].present
                \/ ~govDB[ScoredKey].present)

\* The environmental score, in tenths, of the scored snapshot for ec
\* employees, the per-employee adjustments left out or not.
EnvScoreFor(ec, perEmployee) ==
  LET m == envDB[ScoredKey]
  IN Round1FromHundredths(
       Clamp(10000 + renewableTerm(NumberOr0(m.renewableEnergyPercent))
             + (IF perEmployee
                THEN energyBand(NumberOr0(m.electricityUsageKwh), ec)
                     + wasteBand(NumberOr0(m.wasteGeneratedKg), ec)
                     + waterBand(NumberOr0(m.waterUsageKL), ec)
                     + carbonBand(NumberOr0(m.carbonEmissionsTons), ec)
                ELSE 0)))

\* C22 as stated: on a zero, absent or non-numeric denominator (employee
\* total, board members, employee count) the adjustment is skipped and leaves
\* the score unchanged; no returned score is NaN and a NaN result is an error
\* other than the missing-metrics one.
C22_BadDenominatorSkipsAdjustment ==
  /\ DenominatorsGuarded
  /\ (Scored /\ InvalidEmployeeCount(companyDB["c1"])) =>
       scoreResult.environmentalScore = EnvScoreFor(1, FALSE)

\* C22 amended: the safety, diversity and independence adjustments are
\* skipped on an unusable denominator; an unusable employee count is replaced
\* by 100 and the per-employee adjustments are applied for 100 employees; no
\* returned score is NaN, and the only errors that occur are distinct from
\* one another.
C22_BadDenominatorSkippedOrDefaulted ==
  /\ DenominatorsGuarded
  /\ (Scored /\ InvalidEmployeeCount(companyDB["c1"])) =>
       scoreResult.environmentalScore = EnvScoreFor(FallbackEmployeeCount, TRUE)

\* Scores for a snapshot with incidents but a non-numeric employee total, a
\* board of zero members and a company without employee count whose
\* electricity figure is penalised per 100 employees.
C22_Witness ==
  /\ Scored
  /\ socDB[ScoredKey].totalEmployees = Str
  /\ socDB[ScoredKey].workplaceIncidents = N(5)
  /\ govDB[ScoredKey].boardMembers = N(0)
  /\ companyDB["c1"].employeeCount = Abs
  /\ envDB[ScoredKey].electricityUsageKwh = N(45000)
  /\ scoreResult.environmentalScore # EnvScoreFor(1, FALSE)


\* ------------------------------------------------------------------------
\* The governance points of the stated rule, in whole points, for a snapshot
\* whose violation count is a number: the independence ratio is
\* independentDirectors / boardMembers where the board has members.
StatedGovernancePoints(g) ==
  LET i == NumberOr0(g.independentDirectors)
      b == NumberOr0(g.boardMembers)
      hasRatio == ~isNaN(i) /\ ~isNaN(b) /\ b.v > 0
      bonus == IF hasRatio /\ 100 * i.v >= 50 * b.v THEN 30
               ELSE IF hasRatio /\ 100 * i.v >= 33 * b.v THEN 20
               ELSE IF hasRatio /\ 100 * i.v >= 25 * b.v THEN 10 ELSE 0
      viol == g.complianceViolations.v
      term == IF viol = 0 THEN 30
              ELSE IF viol = 1 THEN 15
              ELSE IF viol = 2 THEN 5 ELSE 0 - 20
      raw == 50 + bonus
             + (IF g.antiCorruptionPolicy = B(TRUE) THEN 20 ELSE 0)
             + (IF g.dataPrivacyPolicy = B(TRUE) THEN 20 ELSE 0)
             + term
  IN IF raw < 0 THEN 0 ELSE IF raw > 100 THEN 100 ELSE raw

\* C24: the governance score is 50 plus the independence bonus (+30 from 0.5,
\* +20 from 0.33, +10 from 0.25, else 0) plus 20 for each of the two policies
\* that is true plus the violation term (+30, +15, +5 for 0, 1, 2 and -20
\* from 3), clamped to [0, 100].
C24_GovernanceScoreRule ==
  (Scored /\ govDB[ScoredKey].complianceViolations.k = "num"
          /\ govDB[ScoredKey].complianceViolations.v >= 0) =>
    scoreResult.governanceScore = 10 * StatedGovernancePoints(govDB[ScoredKey])

\* Three independent directors of five with three violations and no policy:
\* 50 + 30 - 20 = 60 points.
C24_Witness ==
  /\ Scored
  /\ govDB[ScoredKey].boardMembers = N(5)
  /\ govDB[ScoredKey].independentDirectors = N(3)
  /\ govDB[ScoredKey].complianceViolations = N(3)
  /\ scoreResult.governanceScore = 600


\* ------------------------------------------------------------------------
\* C25 as stated: when a syncTasks call that ran on its own returns, every
\* next step of the readiness result of its company and period has a task
\* that is not Completed and whose title is the step's action.
C25_EveryNextStepHasTask ==
  [][\A c \in Active, p \in Periods :
       IsSync(c, p) /\ lastSync' = "ok" =>
         LET steps == complianceNextSteps(envDB, socDB, govDB, evidenceDB, c, p)
         IN \A k \in 1..Len(steps) :
              \E i \in 1..Len(tasks') :
                /\ tasks'[i].companyId = c
                /\ tasks'[i].status # "Completed"
                /\ tasks'[i].title = steps[k].action]_vars


\* ------------------------------------------------------------------------
\* The tasks of company c that are not Completed and stand for candidate cand.
StandingFor(c, cand) ==
  {i \in 1..Len(tasks) :
     /\ tasks[i].companyId = c
     /\ tasks[i].status # "Completed"
     /\ tasks[i].source = cand.source
     /\ tasks[i].sourceId = cand.sourceId
     /\ tasks[i].title = cand.title}

\* C26 as stated: a gap that is still there never has more than one task
\* that is not Completed (Pending, In Progress or Overdue) under its sourceId,
\* however often syncTasks ran while time advanced.
C26_OneTaskPerPersistingGap ==
  \A c \in Active, p \in Periods :
    LET cands == CandidatesFrom(envDB, socDB, govDB, evidenceDB, c, p, now)
    IN \A k \in 1..Len(cands) : Cardinality(StandingFor(c, cands[k])) <= 1


\* ------------------------------------------------------------------------
\* C27 as stated: when a syncTasks call for a period returns, each candidate
\* of that period has an open task standing for it, whatever open tasks the
\* calls for the other period have left in the backlog.
C27_OtherPeriodDoesNotBlock ==
  [][\A p \in ReportingPeriods :
       IsSync("c1", p) /\ lastSync' = "ok" =>
         LET cands == CandidatesFrom(envDB, socDB, govDB, evidenceDB, "c1", p, now)
         IN \A k \in 1..Len(cands) :
              \E i \in 1..Len(tasks') :
                /\ tasks'[i].companyId = "c1"
                /\ tasks'[i].status \in OpenStatuses
                /\ tasks'[i].source = cands[k].source
                /\ tasks'[i].title = cands[k].title]_vars


\* ------------------------------------------------------------------------
\* C28: a syncTasks call changes the backlog only by appending Pending tasks
\* and by moving Pending or In Progress tasks to Overdue: every task that was
\* there is still there, in place, with every field but the status as it
\* was; Completed and Overdue tasks are exactly as they were.
C28_SyncFrame ==
  [][\A c \in Active, p \in Periods :
       IsSync(c, p) =>
         /\ Len(tasks') >= Len(tasks)
         /\ \A i \in 1..Len(tasks) :
              \/ tasks'[i] = tasks[i]
              \/ /\ tasks[i].status \in {"Pending", "In Progress"}
                 /\ tasks'[i] = [tasks[i] EXCEPT !.status = "Overdue"]
         /\ \A i \in (Len(tasks) + 1)..Len(tasks') : tasks'[i].status = "Pending"]_vars

\* After a sync the backlog of c1 holds a Completed task, an Overdue task
\* and an open automatic task whose gap no candidate stands for any more.
C28_Witness ==
  /\ lastSync = "ok"
  /\ \E i \in 1..Len(tasks) : tasks[i].companyId = "c1" /\ tasks[i].status = "Completed"
  /\ \E i \in 1..Len(tasks) : tasks[i].companyId = "c1" /\ tasks[i].status = "Overdue"
  /\ \E i \in 1..Len(tasks) :
       /\ tasks[i].companyId = "c1"
       /\ tasks[i].status \in OpenStatuses
       /\ tasks[i].source \in AutoSources
       /\ LET cands == CandidatesFrom(envDB, socDB, govDB, evidenceDB, "c1", "P1", now)
          IN \A k \in 1..Len(cands) : cands[k].sourceId # tasks[i].sourceId


\* ------------------------------------------------------------------------
\* The snapshot m with its electricity figure moved to the legacy field name.
UnderLegacyName(m) ==
  [m EXCEPT !.electricityUsageKwh = m.electricityKwh, !.electricityKwh = Abs]

\* C29 as stated: a snapshot that holds its electricity figure under
\* electricityKwh only gets the environmental score of the snapshot that holds
\* the same figure under electricityUsageKwh, for every figure and every
\* employee count.
C29_ScoreIgnoresFieldGeneration ==
  LET m == envDB[ScoredKey]
  IN (Scored /\ m.electricityKwh.k = "num" /\ m.electricityUsageKwh = Abs) =>
       scoreResult.environmentalScore =
         Round1FromHundredths(
           calculateEnvironmentalScore(UnderLegacyName(m), companyDB["c1"]).v)


\* ------------------------------------------------------------------------
\* The stored score records of a company and period.
StoredFor(c, p) ==
  {i \in 1..Len(scoreDB) : scoreDB[i].companyId = c /\ scoreDB[i].period = p}

\* C23 as stated: whatever score calculations have run, one after the other
\* or overlapping, at most one score record is stored per company and period.
C23_OneScorePerCompanyAndPeriod ==
  \A c \in Companies, p \in Periods : Cardinality(StoredFor(c, p)) <= 1


\* ------------------------------------------------------------------------
\* The startTrial calls for company c that succeeded.
TrialsStarted(c) ==
  {i \in 1..Len(trialResults) : trialResults[i].companyId = c /\ trialResults[i].success}

\* C30 as stated: whatever startTrial, handleTrialExpiration and
\* convertTrialToPaid calls are made while time advances, startTrial succeeds
\* at most once for a company.
C30_AtMostOneTrial ==
  \A c \in Companies : Cardinality(TrialsStarted(c)) <= 1

====
